---- MODULE Spec2Model ----
(***************************************************************************)
(* A model of the random-graph samplers of graspy.simulations              *)
(* (simulations.py, simulations_corr.py).  Every sampler is a synchronous  *)
(* function: the model's state is the last call made (its name, its        *)
(* arguments, what it returned or raised, the warnings it issued, the      *)
(* number of values it drew from the process-wide generator, and in aux    *)
(* the values of the locals the properties speak of).  Each action is one  *)
(* call; the values the generator yields are chosen with \E.               *)
(*                                                                         *)
(* Numbers.  Probabilities are multiples of 1/ProbDen, held as the integer *)
(* numerator (0 .. ProbDen).  A uniform draw u in [0,1) is held as the     *)
(* integer 0 .. ProbDen-1 standing for a value in [u/ProbDen,(u+1)/ProbDen)*)
(* so that `u < p` is decided by the integers alone.  A degree-correction  *)
(* weight is a fraction <<numerator, denominator>>.                        *)
(***************************************************************************)
EXTENDS Integers, Sequences, FiniteSets, TLC

VARIABLES op, arg, ret, err, warns, ndraws, aux

vars == <<op, arg, ret, err, warns, ndraws, aux>>

\* ---------------------------------------------------------------- bounds
MaxN == 2
\* largest vertex count of a probability matrix given to sample_edges

ProbDen == 2
\* probabilities are 0/ProbDen .. ProbDen/ProbDen

Probs == 0 .. ProbDen

\* the probabilities given to the Bernoulli samplers: an edge that cannot
\* occur, one that may or may not, one that is certain
EdgeProbs == {0, 1, ProbDen}

Bool == {TRUE, FALSE}

NoValue == [kind |-> "none"]

\* ------------------------------------------------------ numpy primitives
\* index pairs of an r x c array, zero-based as in numpy
Idx2(r, c) == (0 .. r - 1) \X (0 .. c - 1)

Idx(n) == Idx2(n, n)

\* np.triu_indices(n, k): the cells on or above the k-th diagonal
TriuIndices(n, k) == {c \in Idx(n) : c[2] >= c[1] + k}

\* np.zeros((n, n)) / np.zeros_like(P)
Zeros(n) == [c \in Idx(n) |-> 0]

\* A[cells] = vals : fancy-index assignment
Assign(A, cells, vals) == [c \in DOMAIN A |-> IF c \in cells THEN vals[c] ELSE A[c]]

\* A - np.diag(np.diag(A))
MinusDiag(A) == [c \in DOMAIN A |-> IF c[1] = c[2] THEN A[c] - A[c] ELSE A[c]]

\* graspy.utils.symmetrize(A, method="triu"): the upper triangle mirrored
Symmetrize(A) == [c \in DOMAIN A |-> IF c[2] >= c[1] THEN A[c] ELSE A[<<c[2], c[1]>>]]

Transpose(A) == [c \in DOMAIN A |-> A[<<c[2], c[1]>>]]

\* np.random.binomial(1, p): the outcomes one Bernoulli(p/ProbDen) draw can have
Bern(p) == IF p = 0 THEN {0} ELSE IF p = ProbDen THEN {1} ELSE {0, 1}

\* np.random.binomial(1, P[cells]): one independent outcome per cell
Binomial(P, cells) == {d \in [cells -> {0, 1}] : \A c \in cells : d[c] \in Bern(P[c])}

\* ------------------------------------------------------------ array values
\* A value passed where an ndarray is expected: its Python type, its shape
\* and its entries (a function of the index tuples).
Array(shape, data) == [type |-> "ndarray", shape |-> shape, data |-> data]

SquareArrays(S, V) == UNION {{Array(<<n, n>>, d) : d \in [Idx(n) -> V]} : n \in S}

\* values that fail the argument checks: a list, a 1-D array, a 2 x 1 array
NotAnArray == [type |-> "list", shape |-> <<1, 1>>, data |-> [c \in Idx(1) |-> 0]]

OneDimArray == Array(<<1>>, [c \in {<<0>>} |-> 0])

NonSquareArray == Array(<<2, 1>>, [c \in Idx2(2, 1) |-> 0])

\* a flat list: neither an ndarray nor 2-D
FlatList == [type |-> "list", shape |-> <<2>>, data |-> [c \in {<<0>>, <<1>>} |-> 0]]

BadArrays == {NotAnArray, OneDimArray, NonSquareArray, FlatList}

\* ----------------------------------------------------------- call protocol
Idle == op = "idle"

Returns(name, a, r, w, k, x) ==
    /\ op' = name
    /\ arg' = a
    /\ ret' = r
    /\ err' = "none"
    /\ warns' = w
    /\ ndraws' = k
    /\ aux' = x

Raises(name, a, e, w, k, x) ==
    /\ op' = name
    /\ arg' = a
    /\ ret' = NoValue
    /\ err' = e
    /\ warns' = w
    /\ ndraws' = k
    /\ aux' = x

Init ==
    /\ op = "idle"
    /\ arg = NoValue
    /\ ret = NoValue
    /\ err = "none"
    /\ warns = {}
    /\ ndraws = 0
    /\ aux = NoValue

\* the caller takes the result; the next call starts from the same place
Done ==
    /\ ~Idle
    /\ op' = "idle"
    /\ arg' = NoValue
    /\ ret' = NoValue
    /\ err' = "none"
    /\ warns' = {}
    /\ ndraws' = 0
    /\ aux' = NoValue

\* ------------------------------------------------------------ sample_edges
SampleEdgesCheckShapeFirst(P) ==
    IF Len(P.shape) # 2 THEN "ValueError"
    ELSE IF P.shape[1] # P.shape[2] THEN "ValueError"
    ELSE IF P.type # "ndarray" THEN "TypeError"
    ELSE "none"

\* the checks of P, in the code's order
SampleEdgesCheck(P) ==
    IF P.type # "ndarray" THEN "TypeError"
    ELSE IF Len(P.shape) # 2 THEN "ValueError"
    ELSE IF P.shape[1] # P.shape[2] THEN "ValueError"
    ELSE "none"

\* a sampler that draws one outcome for every cell whatever directed is
SampleCellsEveryCell(P, directed) == Idx(P.shape[1])

\* the cells for which sample_edges draws a Bernoulli outcome
SampleCells(P, directed) ==
    IF directed THEN Idx(P.shape[1]) ELSE TriuIndices(P.shape[1], 0)

SampleEdgesNoDiagRemoval(P, directed, loops, d) ==
    IF ~directed
    THEN Symmetrize(Assign(Zeros(P.shape[1]), TriuIndices(P.shape[1], 0), d))
    ELSE d

SampleEdgesNoMirror(P, directed, loops, d) ==
    LET A == IF ~directed
             THEN Assign(Zeros(P.shape[1]), TriuIndices(P.shape[1], 0), d)
             ELSE d
    IN  IF loops THEN A ELSE MinusDiag(A)

\* sample_edges(P, directed, loops) for a P that passed the checks, with d the
\* outcomes of np.random.binomial on SampleCells(P, directed)
SampleEdges(P, directed, loops, d) ==
    LET A == IF ~directed
             THEN Symmetrize(Assign(Zeros(P.shape[1]), TriuIndices(P.shape[1], 0), d))
             ELSE d
    IN  IF loops THEN A ELSE MinusDiag(A)

SampleEdgesInputs == SquareArrays(1 .. MaxN, EdgeProbs) \cup BadArrays

CallSampleEdges ==
    /\ Idle
    /\ \E P \in SampleEdgesInputs, directed \in Bool, loops \in Bool :
        LET a == [P |-> P, directed |-> directed, loops |-> loops] IN
        IF SampleEdgesCheck(P) # "none"
        THEN Raises("sample_edges", a, SampleEdgesCheck(P), {}, 0, NoValue)
        ELSE \E d \in Binomial(P.data, SampleCells(P, directed)) :
                Returns("sample_edges", a, SampleEdges(P, directed, loops, d), {},
                        Cardinality(SampleCells(P, directed)), [samples |-> d])

NextSampleEdges == CallSampleEdges \/ Done

SpecSampleEdges == Init /\ [][NextSampleEdges]_vars

\* C1: for a square 2-D P, sample_edges(P, directed=False, loops) returns a
\* matrix of P's shape whose entries are all 0 or 1 and which equals its
\* transpose; and for either value of directed, sample_edges(P, directed,
\* loops=False) returns a matrix whose diagonal is all zero.
C1_SymmetricBinaryLoopless ==
    (op = "sample_edges" /\ err = "none") =>
        /\ ~arg.directed =>
            /\ DOMAIN ret = DOMAIN arg.P.data
            /\ \A c \in DOMAIN ret : ret[c] \in {0, 1}
            /\ ret = Transpose(ret)
        /\ ~arg.loops => \A c \in DOMAIN ret : c[1] = c[2] => ret[c] = 0

\* an undirected loopless call on an asymmetric P whose diagonal draw was 1
\* for certain, with an edge sampled off the diagonal
C1_Witness ==
    /\ op = "sample_edges" /\ err = "none"
    /\ ~arg.directed /\ ~arg.loops
    /\ arg.P.shape = <<2, 2>>
    /\ arg.P.data[<<0, 0>>] = ProbDen
    /\ arg.P.data[<<0, 1>>] # arg.P.data[<<1, 0>>]
    /\ ret[<<0, 1>>] = 1 /\ ret[<<1, 0>>] = 1

\* C16: sample_edges raises TypeError when P is not an ndarray (whatever its
\* shape), ValueError when P is an ndarray that is not 2-D, and ValueError when
\* P is 2-D and not square; in each case nothing was drawn and no matrix is
\* returned.
C16_SampleEdgesErrors ==
    (op = "sample_edges") =>
        /\ arg.P.type # "ndarray" => err = "TypeError"
        /\ (arg.P.type = "ndarray" /\ Len(arg.P.shape) # 2) => err = "ValueError"
        /\ (arg.P.type = "ndarray" /\ Len(arg.P.shape) = 2
              /\ arg.P.shape[1] # arg.P.shape[2]) => err = "ValueError"
        /\ (arg.P.type = "ndarray" /\ Len(arg.P.shape) = 2
              /\ arg.P.shape[1] = arg.P.shape[2]) => err = "none"
        /\ err # "none" => (ndraws = 0 /\ ret = NoValue /\ aux = NoValue)

\* a flat list, which fails the type check and would fail the 2-D check too
C16_Witness ==
    /\ op = "sample_edges" /\ err = "TypeError"
    /\ arg.P.type = "list" /\ Len(arg.P.shape) = 1
    /\ ndraws = 0 /\ ret = NoValue

\* ------------------------------------------------------------ typed scalars
\* A Python scalar argument: its type and its value
IntV(v) == [type |-> "int", val |-> v]

FloatV(v) == [type |-> "float", val |-> v]

\* a weight function (np.random.poisson, ...), a value that is neither
\* numeric nor callable, and the two forms of wtargs
WtFunction == [type |-> "callable", val |-> 0]

WtString == [type |-> "str", val |-> 0]

WtArgsNone == [type |-> "None"]

WtArgsDict == [type |-> "dict"]

\* np.issubdtype(type(x), np.integer), np.issubdtype(type(x), np.number), callable(x)
IsInteger(x) == x.type = "int"

IsNumber(x) == x.type \in {"int", "float"}

IsCallable(x) == x.type = "callable"

\* ------------------------------------------------------------------- er_nm
MaxErN == 2
\* largest vertex count given to er_nm

MaxWt == 2
\* largest weight a weight function returns

\* the values a weight function can return for one edge
WtDraws == {0, MaxWt}

MaxEdgesLoopsAsNoLoops(n, directed, loops) ==
    IF directed THEN n * (n - 1) ELSE (n * (n - 1)) \div 2

\* the largest number of edges er_nm lets the caller ask for
MaxEdges(n, directed, loops) ==
    IF loops
    THEN IF directed THEN n * n ELSE (n * (n + 1)) \div 2
    ELSE IF directed THEN n * (n - 1) ELSE (n * (n - 1)) \div 2

\* the argument checks of er_nm, in the order the code makes them
ErNmCheck(n, m, directed, loops, wt) ==
    IF ~IsInteger(m) THEN "TypeError"
    ELSE IF m.val <= 0 THEN "ValueError"
    ELSE IF ~IsInteger(n) THEN "TypeError"
    ELSE IF n.val <= 0 THEN "ValueError"
    ELSE IF ~IsInteger(wt) /\ ~IsCallable(wt) THEN "TypeError"
    ELSE IF m.val > MaxEdges(n.val, directed, loops) THEN "ValueError"
    ELSE "none"

\* the cells er_nm chooses its edges from
ErNmIdx(n, directed, loops) ==
    IF directed
    THEN IF loops THEN Idx(n) ELSE {c \in Idx(n) : c[1] # c[2]}
    ELSE TriuIndices(n, IF loops = FALSE THEN 1 ELSE 0)

ChoiceWithReplacement(S, m) ==
    {T \in SUBSET S : Cardinality(T) >= 1 /\ Cardinality(T) <= m}

\* np.random.choice(S, size=m, replace=False): m distinct elements of S
Choice(S, m) == {T \in SUBSET S : Cardinality(T) = m}

\* the matrix er_nm builds from the chosen cells and their weights
ErNmMatrix(n, directed, chosen, w) ==
    LET A == Assign(Zeros(n), chosen, w)
    IN  IF ~directed THEN Symmetrize(A) ELSE A

ErNmInputs ==
    [n : {IntV(v) : v \in 0 .. MaxErN} \cup {FloatV(1)},
     m : {IntV(v) : v \in 0 .. MaxErN * MaxErN + 1} \cup {FloatV(1)},
     directed : Bool, loops : Bool,
     wt : {IntV(1), IntV(MaxWt), FloatV(MaxWt), WtFunction, WtString},
     wtargs : {WtArgsNone, WtArgsDict}]

CallErNm ==
    /\ Idle
    /\ \E a \in ErNmInputs :
        LET e == ErNmCheck(a.n, a.m, a.directed, a.loops, a.wt)
            idx == ErNmIdx(a.n.val, a.directed, a.loops)
        IN
        IF e # "none"
        THEN Raises("er_nm", a, e, {}, 0, NoValue)
        ELSE IF a.m.val > Cardinality(idx)
        THEN \* np.random.choice: cannot take a larger sample than population
             Raises("er_nm", a, "ValueError", {}, 0, NoValue)
        ELSE \E chosen \in Choice(idx, a.m.val) :
            IF IsNumber(a.wt)
            THEN Returns("er_nm", a,
                         ErNmMatrix(a.n.val, a.directed, chosen, [c \in chosen |-> a.wt.val]),
                         {}, a.m.val, [chosen |-> chosen])
            ELSE IF a.wtargs.type = "None"
            THEN \* wt(size=m, **None)
                 Raises("er_nm", a, "TypeError", {}, a.m.val, [chosen |-> chosen])
            ELSE \E w \in [chosen -> WtDraws] :
                 Returns("er_nm", a, ErNmMatrix(a.n.val, a.directed, chosen, w),
                         {}, a.m.val + a.m.val, [chosen |-> chosen])

NextErNm == CallErNm \/ Done

SpecErNm == Init /\ [][NextErNm]_vars

\* the number of nonzero entries of a matrix, and of its diagonal
CountNonzero(A) == Cardinality({c \in DOMAIN A : A[c] # 0})

CountNonzeroDiag(A) == Cardinality({c \in DOMAIN A : c[1] = c[2] /\ A[c] # 0})

\* C2: for n > 0 and 0 < m <= max_edges(n, directed, loops), er_nm with the
\* default constant weight returns an n x n matrix with exactly m nonzero
\* entries when directed, and exactly 2m minus the number of chosen diagonal
\* cells when undirected; the m cells chosen are distinct cells of the
\* eligible index set, also when m equals the maximum.
C2_ExactEdgeCount ==
    (/\ op = "er_nm"
     /\ IsInteger(arg.n) /\ IsInteger(arg.m) /\ arg.wt = IntV(1)
     /\ arg.n.val > 0 /\ arg.m.val > 0
     /\ arg.m.val <= MaxEdges(arg.n.val, arg.directed, arg.loops)) =>
        /\ err = "none"
        /\ DOMAIN ret = Idx(arg.n.val)
        /\ Cardinality(aux.chosen) = arg.m.val
        /\ aux.chosen \subseteq ErNmIdx(arg.n.val, arg.directed, arg.loops)
        /\ CountNonzero(ret) =
              IF arg.directed THEN arg.m.val
              ELSE 2 * arg.m.val
                   - Cardinality({c \in aux.chosen : c[1] = c[2]})

\* an undirected call with loops that asked for the maximum number of edges
\* and so chose diagonal cells too
C2_Witness ==
    /\ op = "er_nm" /\ err = "none" /\ arg.wt = IntV(1)
    /\ ~arg.directed /\ arg.loops
    /\ arg.n.val = 2
    /\ arg.m.val = MaxEdges(arg.n.val, arg.directed, arg.loops)
    /\ CountNonzeroDiag(ret) = 2
    /\ CountNonzero(ret) = 4

\* C3: er_nm computes the maximum edge count as n^2 (directed, loops),
\* n(n+1)/2 (undirected, loops), n(n-1) (directed, no loops), n(n-1)/2
\* (undirected, no loops), which is the size of the index set it chooses from;
\* given valid types it raises ValueError for m <= 0 or n <= 0, and for
\* m > 0, n > 0 raises ValueError exactly when m exceeds that bound; whenever
\* it raises, no matrix is returned.
C3_MaxEdgesAndErrors ==
    (op = "er_nm" /\ IsInteger(arg.n) /\ IsInteger(arg.m)
        /\ (IsInteger(arg.wt) \/ IsCallable(arg.wt))) =>
        LET n == arg.n.val
            m == arg.m.val
            bound == IF arg.directed /\ arg.loops THEN n * n
                     ELSE IF arg.loops THEN (n * (n + 1)) \div 2
                     ELSE IF arg.directed THEN n * (n - 1)
                     ELSE (n * (n - 1)) \div 2
        IN  /\ (m <= 0 \/ n <= 0) => err = "ValueError"
            /\ (m > 0 /\ n > 0) =>
                /\ bound = Cardinality(ErNmIdx(n, arg.directed, arg.loops))
                /\ (err = "ValueError") <=> (m > bound)
            /\ err # "none" => ret = NoValue

\* a request for one edge more than the maximum was refused, and so was a
\* request on an empty vertex set
C3_Witness ==
    /\ op = "er_nm" /\ err = "ValueError" /\ ret = NoValue
    /\ IsInteger(arg.n) /\ IsInteger(arg.m) /\ arg.wt = IntV(1)
    /\ arg.n.val = 2 /\ ~arg.directed /\ ~arg.loops
    /\ arg.m.val = 2

\* --------------------------------------------------------------------- sbm
MaxVertices == 2
\* largest number of vertices (sum of the community sizes) given to sbm

MaxK == 2
\* largest number of communities given to sbm

\* the values np.random.uniform can yield, as the index of the interval
\* [u/ProbDen, (u+1)/ProbDen) the value lies in: the lowest and the highest
UDraws == {0, ProbDen - 1}

\* n: a list of K community sizes, n.val[0] .. n.val[K-1]
SizeList(K, f) == [type |-> "list", dtype |-> "int", len |-> K, val |-> f]

\* p, wt, wtargs given as a list of lists or a 2-D array
Matrix(r, c, dtype, d) == [type |-> "list", dtype |-> dtype, shape |-> <<r, c>>, data |-> d]

\* the K x K matrix with a on the diagonal, b above it and c below it
Planted(K, a, b, c) ==
    [x \in Idx(K) |-> IF x[1] = x[2] THEN a ELSE IF x[1] < x[2] THEN b ELSE c]

RECURSIVE SumTo(_, _)
\* n[0] + ... + n[k-1]   (n.cumsum()[k-1], and 0 for k = 0)
SumTo(f, k) == IF k = 0 THEN 0 ELSE SumTo(f, k - 1) + f[k - 1]

CmtyOverlapping(f, i) == SumTo(f, i) .. (SumTo(f, i) + f[i])

\* cmties[i] = range(counter, counter + n[i])
Cmty(f, i) == SumTo(f, i) .. (SumTo(f, i) + f[i] - 1)

\* graspy.utils.cartprod(cmties[i], cmties[j]): all pairs (u, v)
CartProd(S, T) == S \X T

NToLabelsOffByOne(f, K) ==
    [v \in 0 .. SumTo(f, K) - 1 |->
        IF \E i \in 1 .. K - 1 : SumTo(f, i - 1) <= v /\ v < SumTo(f, i)
        THEN CHOOSE i \in 1 .. K - 1 :
                /\ SumTo(f, i - 1) <= v /\ v < SumTo(f, i)
                /\ \A j \in i + 1 .. K - 1 : ~(SumTo(f, j - 1) <= v /\ v < SumTo(f, j))
        ELSE 0]

\* _n_to_labels(n): zeros, then labels[cumsum[i-1] : cumsum[i]] = i for
\* i = 1 .. len(n)-1 in turn (the last assignment to a vertex stands)
NToLabels(f, K) ==
    [v \in 0 .. SumTo(f, K) - 1 |->
        IF \E i \in 1 .. K - 1 : SumTo(f, i) <= v /\ v < SumTo(f, i + 1)
        THEN CHOOSE i \in 1 .. K - 1 :
                /\ SumTo(f, i) <= v /\ v < SumTo(f, i + 1)
                /\ \A j \in i + 1 .. K - 1 : ~(SumTo(f, j) <= v /\ v < SumTo(f, j + 1))
        ELSE 0]

IsSymmetric(d) == \A c \in DOMAIN d : d[c] = d[<<c[2], c[1]>>]

SbmCheckNoSymmetry(a) ==
    LET K == a.n.len IN
    IF a.n.type # "list" THEN "TypeError"
    ELSE IF a.n.dtype # "int" THEN "ValueError"
    ELSE IF a.p.type # "list" THEN "TypeError"
    ELSE IF a.p.dtype # "number" THEN "ValueError"
    ELSE IF a.p.shape # <<K, K>> THEN "ValueError"
    ELSE IF \E c \in DOMAIN a.p.data : a.p.data[c] < 0 \/ a.p.data[c] > ProbDen
         THEN "ValueError"
    ELSE IF ~IsNumber(a.wt) /\ ~IsCallable(a.wt) /\ a.wt.type # "list" THEN "TypeError"
    ELSE IF ~IsNumber(a.wt) /\ ~IsCallable(a.wt) /\ a.wtargs.type # "list" THEN "TypeError"
    ELSE IF a.wt.type = "list" /\ a.wt.shape # <<K, K>> THEN "ValueError"
    ELSE IF a.wt.type = "list" /\ a.wtargs.shape # <<K, K>> THEN "ValueError"
    ELSE IF a.wt.type = "list" /\ \E c \in DOMAIN a.wt.data : a.wt.data[c] = 0
         THEN "TypeError"
    ELSE "none"

\* the checks sbm makes of n, p, wt, wtargs and directed, in the code's order
SbmCheck(a) ==
    LET K == a.n.len IN
    IF a.n.type # "list" THEN "TypeError"
    ELSE IF a.n.dtype # "int" THEN "ValueError"
    ELSE IF a.p.type # "list" THEN "TypeError"
    ELSE IF a.p.dtype # "number" THEN "ValueError"
    ELSE IF a.p.shape # <<K, K>> THEN "ValueError"
    ELSE IF \E c \in DOMAIN a.p.data : a.p.data[c] < 0 \/ a.p.data[c] > ProbDen
         THEN "ValueError"
    ELSE IF ~IsNumber(a.wt) /\ ~IsCallable(a.wt) /\ a.wt.type # "list" THEN "TypeError"
    ELSE IF ~IsNumber(a.wt) /\ ~IsCallable(a.wt) /\ a.wtargs.type # "list" THEN "TypeError"
    ELSE IF a.wt.type = "list" /\ a.wt.shape # <<K, K>> THEN "ValueError"
    ELSE IF a.wt.type = "list" /\ a.wtargs.shape # <<K, K>> THEN "ValueError"
    ELSE IF a.wt.type = "list" /\ \E c \in DOMAIN a.wt.data : a.wt.data[c] = 0
         THEN "TypeError"
    ELSE IF ~a.directed /\ ~IsSymmetric(a.p.data) THEN "ValueError"
    ELSE IF ~a.directed /\ a.wt.type = "list" /\ ~IsSymmetric(a.wt.data) THEN "ValueError"
    ELSE IF ~a.directed /\ a.wt.type = "list" /\ ~IsSymmetric(a.wtargs.data)
         THEN "ValueError"
    ELSE "none"

\* --------------------------------------------------- sbm: degree correction
DcDen == 2
\* degree-correction weights are multiples of 1/DcDen

\* the weights a caller supplies: -1/DcDen, 0, 1/DcDen, 1
DcVals == {-1, 0, 1, DcDen}

\* the values a dc function returns: -1/DcDen, 0, 1/DcDen
DcDraws == {-1, 0, 1}

DcNone == [type |-> "None"]

DcFunction == [type |-> "callable"]

\* a list of len numbers, a list of len functions, something else
DcNumbers(len, d) == [type |-> "numlist", len |-> len, data |-> d]

DcFunctions(len) == [type |-> "funlist", len |-> len]

DcString == [type |-> "str"]

\* dc_kws: {} (the default), a dictionary of arguments, a list of len
\* dictionaries, a list of len values that are not all dictionaries
KwsDefault == [type |-> "dict", len |-> 0, dicts |-> TRUE]

KwsDict == [type |-> "dict", len |-> 1, dicts |-> TRUE]

KwsList(len, dicts) == [type |-> "list", len |-> len, dicts |-> dicts]

\* the checks of dc and dc_kws; "none" when dc is None or passes them
DcCheck(a) ==
    LET K == a.n.len
        N == SumTo(a.n.val, K)
    IN
    IF a.dc.type = "callable"
    THEN IF a.dc_kws.type # "dict" THEN "TypeError" ELSE "none"
    ELSE IF a.dc.type = "numlist"
    THEN IF a.dc.len # N THEN "ValueError"
         ELSE IF \E v \in DOMAIN a.dc.data : a.dc.data[v] < 0 THEN "ValueError"
         ELSE "none"
    ELSE IF a.dc.type = "funlist"
    THEN IF a.dc.len # K THEN "ValueError"
         ELSE IF a.dc_kws.type # "list"
         THEN IF a.dc_kws.len = 0 THEN "none" ELSE "TypeError"
         ELSE IF a.dc_kws.len # K THEN "ValueError"
         ELSE IF ~a.dc_kws.dicts THEN "TypeError"
         ELSE "none"
    ELSE IF a.dc.type # "None" THEN "ValueError"
    ELSE "none"

\* the values a weight vector is built from: supplied, or one draw per vertex
DcRaw(a) ==
    LET N == SumTo(a.n.val, a.n.len) IN
    IF a.dc.type = "numlist" THEN {a.dc.data}
    ELSE IF a.dc.type \in {"callable", "funlist"} THEN [0 .. N - 1 -> DcDraws]
    ELSE {[v \in 0 .. N - 1 |-> 0]}

RECURSIVE SumOver(_, _)
\* sum(f[x] for x in S)
SumOver(f, S) ==
    IF S = {} THEN 0
    ELSE LET x == CHOOSE y \in S : TRUE IN f[x] + SumOver(f, S \ {x})

\* the community of vertex v
CmtyOf(f, K, v) == CHOOSE i \in 0 .. K - 1 : v \in Cmty(f, i)

\* the quotient num/den as a pair with a denominator >= 0; a zero denominator
\* stands for what floating point gives: nan (0/0), +inf, -inf
Frac(num, den) == IF den < 0 THEN <<0 - num, 0 - den>> ELSE <<num, den>>

\* the communities whose supplied weights do not sum to 1 (np.isclose fails)
DcOffCommunities(a, raw) ==
    {i \in 0 .. a.n.len - 1 : SumOver(raw, Cmty(a.n.val, i)) # DcDen}

DcProbsUnnormalised(a, raw) ==
    [v \in DOMAIN raw |-> Frac(raw[v], DcDen)]

DcProbsWholeVector(a, raw) ==
    [v \in DOMAIN raw |-> Frac(raw[v], SumOver(raw, DOMAIN raw))]

\* dcProbs as the sampling loop uses it: every community's weights divided by
\* their sum, except a community of a numeric dc that already sums to 1
DcProbs(a, raw) ==
    [v \in DOMAIN raw |->
        LET i == CmtyOf(a.n.val, a.n.len, v)
            S == SumOver(raw, Cmty(a.n.val, i))
        IN  IF a.dc.type = "numlist" /\ i \notin DcOffCommunities(a, raw)
            THEN Frac(raw[v], DcDen)
            ELSE Frac(raw[v], S)]

DcWarningsAll(a, raw) ==
    IF a.dc.type = "numlist"
    THEN {<<"normalizing", i>> : i \in 0 .. a.n.len - 1}
    ELSE {}

\* the warnings the numeric form issues: one per community it renormalises
DcWarnings(a, raw) ==
    IF a.dc.type = "numlist"
    THEN {<<"normalizing", i>> : i \in DcOffCommunities(a, raw)}
    ELSE {}

\* -------------------------------------------------- sbm: the sampling loop
\* the community pairs (i, j) the loop visits: all, or j >= i when undirected
Blocks(K, directed) == {b \in Idx(K) : directed \/ b[2] >= b[1]}

\* cprod: the candidate cells of block (i, j)
BlockCells(f, b) == CartProd(Cmty(f, b[1]), Cmty(f, b[2]))

\* every cell for which the loop draws a uniform value
Candidates(a) ==
    UNION {BlockCells(a.n.val, b) : b \in Blocks(a.n.len, a.directed)}

AcceptedAtOrBelow(a, u, b) == {c \in BlockCells(a.n.val, b) : u[c] <= a.p.data[b]}

\* the cells of block b with pchoice < block_p
Accepted(a, u, b) == {c \in BlockCells(a.n.val, b) : u[c] < a.p.data[b]}

\* edge_dist: the product of the two vertices' weights
EdgeDist(dcp, c) == <<dcp[c[1]][1] * dcp[c[2]][1], dcp[c[1]][2] * dcp[c[2]][2]>>

\* the cells of block b with edge_dist > 0
Support(a, dcp, b) == {c \in BlockCells(a.n.val, b) : EdgeDist(dcp, c)[1] > 0}

Min(x, y) == IF x < y THEN x ELSE y

NumEdgesUncapped(a, dcp, u, b) == Cardinality(Accepted(a, u, b))

\* num_edges after the cap at the number of nonzero pairwise dc entries
NumEdges(a, dcp, u, b) ==
    Min(Cardinality(Accepted(a, u, b)), Cardinality(Support(a, dcp, b)))

\* whether the loop warns "More edges sampled than nonzero pairwise dc entries"
Capped(a, dcp, u, b) ==
    Cardinality(Accepted(a, u, b)) > Cardinality(Support(a, dcp, b))

ChoiceFails == [ok |-> FALSE, cells |-> {}]

\* np.random.choice(triu, size=num_edges, replace=False, p=edge_dist) for block
\* b: ValueError for an empty population, a negative or infinite probability
\* or probabilities that do not sum to 1; for probabilities that are nan the
\* outcome depends on the numpy release (ValueError, or the sum check passes)
ChoiceP(a, dcp, u, b) ==
    LET cells == BlockCells(a.n.val, b)
        picks == {[ok |-> TRUE, cells |-> T] :
                    T \in Choice(Support(a, dcp, b), NumEdges(a, dcp, u, b))}
    IN
    IF cells = {} THEN {ChoiceFails}
    ELSE IF \E c \in cells : EdgeDist(dcp, c)[1] < 0 THEN {ChoiceFails}
    ELSE IF \E c \in cells : EdgeDist(dcp, c) = <<0, 0>> THEN {ChoiceFails} \cup picks
    ELSE IF \E c \in cells : EdgeDist(dcp, c)[2] = 0 THEN {ChoiceFails}
    ELSE IF SumOver([c \in cells |-> EdgeDist(dcp, c)[1]], cells)
              # EdgeDist(dcp, CHOOSE c \in cells : TRUE)[2]
         THEN {ChoiceFails}
    ELSE picks

\* what block b can select: the accepted cells, or with dc the re-sampled ones
BlockOutcomes(a, dcp, u, b) ==
    IF a.dc.type = "None"
    THEN {[ok |-> TRUE, cells |-> Accepted(a, u, b)]}
    ELSE ChoiceP(a, dcp, u, b)

\* block x is visited before block y
Before(x, y) == x[1] < y[1] \/ (x[1] = y[1] /\ x[2] < y[2])

\* wt[i, j]: the weight of block b after np.full / np.array
BlockWt(a, b) == IF a.wt.type = "list" THEN WtFunction ELSE a.wt

BlockWtNeverCalled(a, b) == IF IsNumber(a.wt) THEN IntV(a.wt.val) ELSE a.wt

\* block_wt(size=len(triu), **block_wtargs) raises: not callable, or **None
WtCallFails(a, b) ==
    /\ BlockWt(a, b).type # "int"
    /\ \/ ~IsCallable(BlockWt(a, b))
       \/ a.wtargs.type = "None"

RECURSIVE Selections(_, _, _, _)
\* one outcome for every block of B the loop reaches, in the order of the two
\* nested for statements; the loop ends at the first block that raises
Selections(a, dcp, u, B) ==
    IF B = {} THEN {<<>>}
    ELSE LET b == CHOOSE x \in B : \A y \in B : y = x \/ Before(x, y) IN
         UNION {IF ~o.ok \/ WtCallFails(a, b)
                THEN {(b :> o)}
                ELSE {(b :> o) @@ g : g \in Selections(a, dcp, u, B \ {b})}
                : o \in BlockOutcomes(a, dcp, u, b)}

\* the first block at which the loop raises, if any, and the error
FailingBlocks(a, sel) ==
    {b \in DOMAIN sel : ~sel[b].ok \/ WtCallFails(a, b)}

FirstFailing(a, sel) ==
    CHOOSE b \in FailingBlocks(a, sel) :
        \A x \in FailingBlocks(a, sel) : x = b \/ Before(b, x)

LoopError(a, sel) ==
    IF FailingBlocks(a, sel) = {} THEN "none"
    ELSE IF ~sel[FirstFailing(a, sel)].ok THEN "ValueError"
    ELSE "TypeError"

\* the cells whose weight comes from a weight function
DrawnWeightCells(a, sel) ==
    UNION {IF IsCallable(BlockWt(a, b)) THEN sel[b].cells ELSE {} : b \in DOMAIN sel}

\* the values requested from the generator by the blocks visited before the
\* loop ended (at block last, or after every block)
LoopDraws(a, sel, visited, failing) ==
    SumOver([b \in visited |->
                Cardinality(BlockCells(a.n.val, b))
                + (IF a.dc.type # "None" /\ sel[b].ok THEN Cardinality(sel[b].cells) ELSE 0)
                + (IF IsCallable(BlockWt(a, b)) /\ b \notin failing
                   THEN Cardinality(sel[b].cells) ELSE 0)],
            visited)

SbmMatrixNoDiagRemoval(a, sel, w) ==
    LET N == SumTo(a.n.val, a.n.len)
        chosen == UNION {sel[b].cells : b \in DOMAIN sel}
        A == Assign(Zeros(N), chosen,
                    [c \in chosen |-> IF c \in DOMAIN w THEN w[c] ELSE a.wt.val])
    IN  IF a.directed THEN A ELSE Symmetrize(A)

\* the matrix the loop fills, the diagonal removed when loops are disallowed
\* and the upper triangle mirrored when undirected
SbmMatrix(a, sel, w) ==
    LET N == SumTo(a.n.val, a.n.len)
        chosen == UNION {sel[b].cells : b \in DOMAIN sel}
        A == Assign(Zeros(N), chosen,
                    [c \in chosen |-> IF c \in DOMAIN w THEN w[c] ELSE a.wt.val])
        B == IF ~a.loops THEN MinusDiag(A) ELSE A
    IN  IF a.directed THEN B ELSE Symmetrize(B)

NoLabels == <<>>

\* the values np.random.uniform can return for the candidate cells. With a
\* degree correction the loop reads pchoice only through the count
\* sum(pchoice < block_p), so the draws enumerated for such a call are the
\* ones that are low on the first k cells in row-major order and high on the rest
Pchoices(b) ==
    LET N == SumTo(b.n.val, b.n.len) IN
    IF b.dc.type = "None" THEN [Candidates(b) -> UDraws]
    ELSE {[c \in Candidates(b) |->
                IF (c[1] * N) + c[2] < k THEN 0 ELSE ProbDen - 1] : k \in 0 .. N * N}

\* the locals of the loop kept for the properties: the dc weights drawn and
\* normalised, and for every block visited pchoice, sum(pchoice < block_p) and
\* the cells selected, and the weights drawn for them
Locals(b, raw, dcp, u, sel, visited, w) ==
    [raw |-> raw, dcProbs |-> dcp,
     pchoice |-> [c \in UNION {BlockCells(b.n.val, x) : x \in visited} |-> u[c]],
     num_edges |-> [x \in visited |-> Cardinality(Accepted(b, u, x))],
     sel |-> [x \in visited |-> sel[x]],
     wts |-> w]

\* sbm(**b) made by the call `name` whose own arguments are a
SbmBody(name, a, b) ==
    IF SbmCheck(b) # "none" THEN Raises(name, a, SbmCheck(b), {}, 0, NoValue)
    ELSE IF DcCheck(b) # "none" THEN Raises(name, a, DcCheck(b), {}, 0, NoValue)
    ELSE \E raw \in DcRaw(b) :
         LET dcp == DcProbs(b, raw)
             blocks == Blocks(b.n.len, b.directed)
             dcdraws == IF b.dc.type \in {"callable", "funlist"}
                        THEN SumTo(b.n.val, b.n.len) ELSE 0
         IN
         \E u \in Pchoices(b) :
         \E sel \in Selections(b, dcp, u, blocks) :
            LET failing == FailingBlocks(b, sel)
                visited == DOMAIN sel
                capwarn == IF b.dc.type = "None" THEN {}
                           ELSE {<<"fewer edges", x>> : x \in
                                    {y \in visited : Capped(b, dcp, u, y)}}
            IN
            IF failing # {}
            THEN Raises(name, a, LoopError(b, sel), DcWarnings(b, raw) \cup capwarn,
                        dcdraws + LoopDraws(b, sel, visited, failing),
                        Locals(b, raw, dcp, u, sel, visited, <<>>))
            ELSE \E w \in [DrawnWeightCells(b, sel) -> WtDraws] :
                 Returns(name, a,
                         [A |-> SbmMatrix(b, sel, w),
                          labels |-> IF b.return_labels
                                     THEN NToLabels(b.n.val, b.n.len) ELSE NoLabels],
                         DcWarnings(b, raw) \cup capwarn,
                         dcdraws + LoopDraws(b, sel, visited, failing),
                         Locals(b, raw, dcp, u, sel, visited, w))

\* ------------------------------------------------------------- sbm: calls
SbmArgs(n, p, directed, loops, wt, wtargs, dc, dc_kws, return_labels) ==
    [n |-> n, p |-> p, directed |-> directed, loops |-> loops, wt |-> wt,
     wtargs |-> wtargs, dc |-> dc, dc_kws |-> dc_kws, return_labels |-> return_labels]

\* lists of 1 .. MaxK community sizes with 1 .. MaxVertices vertices in all;
\* a list with an empty community has fewer than MaxVertices vertices
SbmSizes ==
    UNION {{SizeList(K, f) : f \in {g \in [0 .. K - 1 -> 0 .. MaxVertices] :
                                        /\ SumTo(g, K) \in 1 .. MaxVertices
                                        /\ (\E k \in 0 .. K - 1 : g[k] = 0)
                                              => SumTo(g, K) < MaxVertices}}
           : K \in 1 .. MaxK}

\* n that is not a list, and n with a non-integer element
BadSizes ==
    {[type |-> "int", dtype |-> "int", len |-> 1, val |-> [k \in {0} |-> 1]],
     [type |-> "list", dtype |-> "float", len |-> 1, val |-> [k \in {0} |-> 1]]}

\* K x K probability matrices, entries in [0, 1]
ProbMatrices(K) ==
    {Matrix(K, K, "number", Planted(K, x, y, z)) : x \in EdgeProbs, y \in EdgeProbs,
                                                   z \in EdgeProbs}

UniformProbMatrices(K) ==
    {Matrix(K, K, "number", Planted(K, x, x, x)) : x \in EdgeProbs}

\* p that is not a list, p with a non-numeric element, p of the wrong shape,
\* p with an entry below 0 or above 1
BadProbMatrices(K) ==
    {[type |-> "float", dtype |-> "number", shape |-> <<K, K>>,
      data |-> Planted(K, 1, 1, 1)],
     Matrix(K, K, "object", Planted(K, 1, 1, 1)),
     Matrix(K + 1, K + 1, "number", Planted(K + 1, 1, 1, 1))}
    \cup {Matrix(K, K, "number", Planted(K, x, y, y)) :
            x \in {0 - 1, 1, ProbDen + 1}, y \in {0 - 1, 1, ProbDen + 1}}

\* per-block weight functions (0: an entry that is not callable) and per-block
\* weight arguments
WtMatrices(K) ==
    {Matrix(r, r, "object", Planted(r, x, y, 1)) :
        r \in {K, K + 1}, x \in {0, 1}, y \in {1, 2}}

WtArgsMatrices(K) ==
    {Matrix(r, r, "object", Planted(r, 1, y, 1)) : r \in {K, K + 1}, y \in {1, 2}}

\* calls that differ in n and p, with the default weight
SbmStructureInputs ==
    UNION {{SbmArgs(n, p, directed, loops, IntV(1), WtArgsNone, DcNone, KwsDefault, FALSE) :
                p \in ProbMatrices(n.len) \cup BadProbMatrices(n.len),
                directed \in Bool, loops \in Bool}
           : n \in SbmSizes \cup BadSizes}

\* calls that ask for the labels
SbmLabelInputs ==
    UNION {{SbmArgs(n, p, directed, FALSE, IntV(1), WtArgsNone, DcNone, KwsDefault, TRUE) :
                p \in UniformProbMatrices(n.len), directed \in Bool}
           : n \in SbmSizes}

\* calls that differ in the weight given for every block
SbmWeightInputs ==
    UNION {{SbmArgs(n, Matrix(n.len, n.len, "number", Planted(n.len, 1, 1, 1)),
                    directed, FALSE, wt, wtargs, DcNone, KwsDefault, FALSE) :
                directed \in Bool,
                wt \in {IntV(MaxWt), FloatV(MaxWt), WtFunction, WtString},
                wtargs \in {WtArgsNone, WtArgsDict}}
           : n \in SbmSizes}

\* calls that give a weight function and its arguments per block
SbmBlockWeightInputs ==
    UNION {{SbmArgs(n, Matrix(n.len, n.len, "number", Planted(n.len, 0, 1, 1)),
                    directed, FALSE, wt, wtargs, DcNone, KwsDefault, FALSE) :
                directed \in Bool, wt \in WtMatrices(n.len),
                wtargs \in WtArgsMatrices(n.len) \cup {WtArgsNone}}
           : n \in SbmSizes}

\* the forms of dc and dc_kws for K communities and N vertices
DcForms(K, N) ==
    {[dc |-> DcFunction, dc_kws |-> k] : k \in {KwsDefault, KwsList(K, TRUE)}}
    \cup {[dc |-> DcNumbers(N, d), dc_kws |-> KwsDefault] : d \in [0 .. N - 1 -> DcVals]}
    \cup {[dc |-> DcNumbers(N + 1, [v \in 0 .. N |-> 1]), dc_kws |-> KwsDefault]}
    \cup {[dc |-> DcFunctions(len), dc_kws |-> k] :
            len \in {K, K + 1},
            k \in {KwsDefault, KwsDict, KwsList(K, TRUE), KwsList(K + 1, TRUE),
                   KwsList(K, FALSE)}}
    \cup {[dc |-> DcString, dc_kws |-> KwsDefault]}

\* calls with a degree correction
SbmDcInputs ==
    UNION {{SbmArgs(n, p, directed, FALSE, IntV(1), WtArgsNone, f.dc, f.dc_kws, FALSE) :
                p \in {Matrix(n.len, n.len, "number", Planted(n.len, x, x, x)) :
                         x \in {1, ProbDen}},
                directed \in Bool,
                f \in DcForms(n.len, SumTo(n.val, n.len))}
           : n \in SbmSizes}

SbmInputs ==
    SbmStructureInputs \cup SbmLabelInputs \cup SbmWeightInputs
    \cup SbmBlockWeightInputs \cup SbmDcInputs

CallSbm ==
    /\ Idle
    /\ \E a \in SbmInputs : SbmBody("sbm", a, a)

NextSbm == CallSbm \/ Done

SpecSbm == Init /\ [][NextSbm]_vars

\* ------------------------------------------------------------------ er_np
\* the checks er_np makes itself (directed and loops are always booleans here)
ErNpCheck(a) ==
    IF a.dc.type = "funlist" THEN "TypeError"
    ELSE IF ~IsInteger(a.n) THEN "TypeError"
    ELSE IF a.p.type # "float" THEN "TypeError"
    ELSE "none"

ErNpSbmArgsFlagsSwapped(a) ==
    SbmArgs(SizeList(1, [k \in {0} |-> a.n.val]),
            Matrix(1, 1, "number", [c \in Idx(1) |-> a.p.val]),
            a.loops, a.directed, a.wt, a.wtargs, a.dc, a.dc_kws, FALSE)

\* the arguments of the sbm call er_np makes: n_sbm = np.array([n]),
\* p_sbm = np.array([[p]]), the rest passed through, return_labels left at False
ErNpSbmArgs(a) ==
    SbmArgs(SizeList(1, [k \in {0} |-> a.n.val]),
            Matrix(1, 1, "number", [c \in Idx(1) |-> a.p.val]),
            a.directed, a.loops, a.wt, a.wtargs, a.dc, a.dc_kws, FALSE)

\* calls without a degree correction (a weight function only with an
\* interior p), calls with one, and calls with one and a weight function
ErNpInputs ==
    [n : {IntV(v) : v \in 1 .. MaxErN} \cup {FloatV(1)},
     p : {FloatV(v) : v \in EdgeProbs \cup {ProbDen + 1}} \cup {IntV(1)},
     directed : Bool, loops : Bool,
     wt : {IntV(1), IntV(MaxWt), FloatV(MaxWt)},
     wtargs : {WtArgsNone, WtArgsDict},
     dc : {DcNone}, dc_kws : {KwsDefault}]
    \cup
    [n : {IntV(v) : v \in 1 .. MaxErN},
     p : {FloatV(1)},
     directed : Bool, loops : Bool,
     wt : {WtFunction},
     wtargs : {WtArgsNone, WtArgsDict},
     dc : {DcNone}, dc_kws : {KwsDefault}]
    \cup
    UNION {[n : {IntV(v)},
            p : {FloatV(1), FloatV(ProbDen)},
            directed : Bool, loops : Bool,
            wt : {IntV(1)},
            wtargs : {WtArgsNone},
            dc : {DcFunction, DcFunctions(1), DcString}
                 \cup {DcNumbers(v, d) : d \in [0 .. v - 1 -> {0, 1, DcDen}]},
            dc_kws : {KwsDefault}]
           : v \in 1 .. MaxErN}
    \cup
    UNION {[n : {IntV(v)},
            p : {FloatV(1)},
            directed : Bool, loops : Bool,
            wt : {WtFunction},
            wtargs : {WtArgsDict},
            dc : {DcNumbers(v, [x \in 0 .. v - 1 |-> 1])},
            dc_kws : {KwsDefault}]
           : v \in 1 .. MaxErN}

CallErNp ==
    /\ Idle
    /\ \E a \in ErNpInputs :
        IF ErNpCheck(a) # "none"
        THEN Raises("er_np", a, ErNpCheck(a), {}, 0, NoValue)
        ELSE SbmBody("er_np", a, ErNpSbmArgs(a))

NextErNp == CallErNp \/ Done

SpecErNp == Init /\ [][NextErNp]_vars

\* sbm([n], [[p]], directed, loops, wt, wtargs, dc, dc_kws) for the arguments
\* of an er_np call
SbmOfErNp ==
    SbmArgs(SizeList(1, [k \in {0} |-> arg.n.val]),
            Matrix(1, 1, "number", [c \in Idx(1) |-> arg.p.val]),
            arg.directed, arg.loops, arg.wt, arg.wtargs, arg.dc, arg.dc_kws, FALSE)

\* C4: a call er_np(n, p, ...) that returns, returns exactly the matrix
\* sbm([n], [[p]], ...) builds from the same draws (the dc weights, pchoice,
\* the cells np.random.choice picks, the weights drawn), the number of values it
\* requests from the generator is the number sbm requests, and sbm accepts
\* these arguments. The cells selected are the ones sbm selects for these
\* draws: those with pchoice < p, or with a degree correction num_edges cells
\* of nonzero weight.
C4_ErNpIsSbm ==
    (op = "er_np" /\ err = "none") =>
        LET b == SbmOfErNp
            dcp == DcProbs(b, aux.raw)
        IN  /\ SbmCheck(b) = "none" /\ DcCheck(b) = "none"
            /\ aux.raw \in DcRaw(b)
            /\ aux.pchoice \in Pchoices(b)
            /\ DOMAIN aux.sel = Blocks(1, arg.directed)
            /\ \A x \in DOMAIN aux.sel :
                  /\ aux.sel[x].ok
                  /\ IF arg.dc.type = "None"
                     THEN aux.sel[x].cells = Accepted(b, aux.pchoice, x)
                     ELSE /\ aux.sel[x].cells \subseteq Support(b, dcp, x)
                          /\ Cardinality(aux.sel[x].cells)
                                = NumEdges(b, dcp, aux.pchoice, x)
            /\ aux.wts \in [DrawnWeightCells(b, aux.sel) -> WtDraws]
            /\ ret.A = SbmMatrix(b, aux.sel, aux.wts)
            /\ ret.labels = NoLabels
            /\ ndraws = (IF arg.dc.type = "callable" THEN arg.n.val ELSE 0)
                        + LoopDraws(b, aux.sel, DOMAIN aux.sel, {})

\* a directed call that allows loops, with a weight function and a degree
\* correction, returned a matrix with a loop and an asymmetric pair
C4_Witness ==
    /\ op = "er_np" /\ err = "none"
    /\ arg.directed /\ arg.loops /\ arg.n.val = 2
    /\ arg.dc.type = "numlist" /\ IsCallable(arg.wt)
    /\ ret.A[<<0, 0>>] = MaxWt /\ ret.A[<<0, 1>>] = MaxWt /\ ret.A[<<1, 0>>] = 0

\* ------------------------------------------------------------------- siem
MaxLabel == 3
\* the largest community label in edge_comm

\* edge_comm: its Python type, shape, entries (labels) and whether every entry
\* equals its integer part
EdgeComm(type, shape, data, integral) ==
    [type |-> type, shape |-> shape, data |-> data, integral |-> integral]

\* p given as a list of len numbers
PList(len, d) == [type |-> "list", len |-> len, val |-> d]

PString == [type |-> "str", len |-> 0, val |-> <<>>]

\* wt: None, one function, a list of len functions, something else
SiemWtNone == [type |-> "None", len |-> 0]

SiemWtFunction == [type |-> "callable", len |-> 0]

SiemWtFunctions(len) == [type |-> "funlist", len |-> len]

SiemWtString == [type |-> "str", len |-> 0]

\* edge_comm.max(), edge_comm.min(), len(np.unique(edge_comm))
Labels(E) == {E.data[c] : c \in DOMAIN E.data}

MaxOf(S) == CHOOSE x \in S : \A y \in S : y <= x

MinOf(S) == CHOOSE x \in S : \A y \in S : y >= x

\* edge_comm[~np.eye(edge_comm.shape[0], dtype=bool)] and np.diagonal(edge_comm)
OffDiagonal(E) == {E.data[c] : c \in {x \in DOMAIN E.data : x[1] # x[2]}}

Diagonal(E) == {E.data[c] : c \in {x \in DOMAIN E.data : x[1] = x[2]}}

\* the checks of the labels when loops=True
SiemLabelCheckLoops(E) ==
    IF MinOf(Labels(E)) # 1 THEN "ValueError"
    ELSE IF Cardinality(Labels(E)) # MaxOf(Labels(E)) THEN "ValueError"
    ELSE "none"

\* the checks of the labels when loops=False; the boolean mask is n x n, so
\* indexing a 1-D array or an array with another second dimension with it
\* raises IndexError, and the minimum of no element raises ValueError
SiemLabelCheckNoLoops(E) ==
    IF Len(E.shape) = 1 THEN "IndexError"
    ELSE IF E.shape[2] # E.shape[1] THEN "IndexError"
    ELSE IF OffDiagonal(E) = {} THEN "ValueError"
    ELSE IF MinOf(OffDiagonal(E)) # 1 THEN "ValueError"
    ELSE IF Diagonal(E) # {0} THEN "ValueError"
    ELSE IF Cardinality(Labels(E)) # MaxOf(Labels(E)) + 1 THEN "ValueError"
    ELSE "none"

\* the checks of the shape, made after the label checks; edge_comm.shape[1]
\* of a 1-D array raises IndexError
SiemShapeCheck(E) ==
    IF Len(E.shape) = 1 THEN "IndexError"
    ELSE IF E.shape[1] # E.shape[2] THEN "ValueError"
    ELSE IF Len(E.shape) # 2 THEN "ValueError"
    ELSE "none"

\* the checks of p for K communities
SiemPCheck(p, K) ==
    IF p.type \in {"float", "int"}
    THEN IF p.val < 0 \/ p.val > ProbDen THEN "ValueError" ELSE "none"
    ELSE IF p.type # "list" THEN "TypeError"
    ELSE IF \E k \in DOMAIN p.val : p.val[k] < 0 \/ p.val[k] > ProbDen THEN "ValueError"
    ELSE IF p.len # K THEN "ValueError"
    ELSE "none"

\* the checks of wt and wtargs for K communities
SiemWtCheck(wt, wtargs, K) ==
    IF wt.type = "None" THEN "none"
    ELSE IF wtargs.type = "None" THEN "TypeError"
    ELSE IF wt.type = "callable"
    THEN IF wtargs.type = "dict" \/ wtargs.dicts THEN "none" ELSE "TypeError"
    ELSE IF wt.type = "funlist"
    THEN IF wtargs.type # "list" THEN "TypeError"
         ELSE IF wt.len # K THEN "ValueError"
         ELSE IF wtargs.len # K THEN "ValueError"
         ELSE "none"
    ELSE "TypeError"

\* wtargs of siem: None, one dict, or a list of len entries (all dicts or not)
SiemKwsNone == [type |-> "None", len |-> 0, dicts |-> FALSE]

\* the label checks without the one of the diagonal
SiemLabelCheckAnyDiagonal(E, loops) ==
    IF loops THEN SiemLabelCheckLoops(E)
    ELSE IF Len(E.shape) = 1 THEN "IndexError"
    ELSE IF E.shape[2] # E.shape[1] THEN "IndexError"
    ELSE IF OffDiagonal(E) = {} THEN "ValueError"
    ELSE IF MinOf(OffDiagonal(E)) # 1 THEN "ValueError"
    ELSE "none"

\* the label checks of the loops flag
SiemLabelCheck(E, loops) ==
    IF loops THEN SiemLabelCheckLoops(E) ELSE SiemLabelCheckNoLoops(E)

\* every check of siem, in the order of the code; K is edge_comm.max()
SiemCheck(a) ==
    IF a.n.type # "int" THEN "TypeError"
    ELSE IF a.edge_comm.type # "ndarray" THEN "TypeError"
    ELSE IF ~a.edge_comm.integral THEN "ValueError"
    ELSE IF SiemLabelCheck(a.edge_comm, a.loops) # "none"
    THEN SiemLabelCheck(a.edge_comm, a.loops)
    ELSE IF SiemShapeCheck(a.edge_comm) # "none" THEN SiemShapeCheck(a.edge_comm)
    ELSE IF SiemPCheck(a.p, MaxOf(Labels(a.edge_comm))) # "none"
    THEN SiemPCheck(a.p, MaxOf(Labels(a.edge_comm)))
    ELSE SiemWtCheck(a.wt, a.wtargs, MaxOf(Labels(a.edge_comm)))

\* p[i - 1], p being a list or a number repeated K times
SiemP(p, i) == IF p.type = "list" THEN p.val[i] ELSE p.val

\* the cells of the communities 1..K: np.where(edge_comm == i)
Labelled(E) == {c \in DOMAIN E.data : E.data[c] >= 1}

\* the outcomes of bernoulli.rvs(p[i - 1], size=...) over all communities
SiemSamples(E, p) ==
    {d \in [Labelled(E) -> {0, 1}] : \A c \in Labelled(E) : d[c] \in Bern(SiemP(p, E.data[c]))}

\* one call of wt[i - 1](**wtargs[i - 1]) per cell of a community when wt is given
SiemWeights(E, wt) == [IF wt.type = "None" THEN {} ELSE Labelled(E) -> WtDraws]

\* A after the loop over the communities: the cells of no community stay 0
SiemSampled(E, wt, d, w) ==
    [c \in DOMAIN E.data |->
        IF c \notin Labelled(E) THEN 0
        ELSE IF wt.type = "None" THEN d[c] ELSE d[c] * w[c]]

\* the matrix returned, left as sampled whatever the directed flag
SiemMatrixNoSymmetrize(E, directed, wt, d, w) == SiemSampled(E, wt, d, w)

\* the matrix returned: symmetrize(A, method="triu") when not directed
SiemMatrix(E, directed, wt, d, w) ==
    IF directed THEN SiemSampled(E, wt, d, w)
    ELSE Symmetrize(SiemSampled(E, wt, d, w))

\* siem(n, p, edge_comm, directed, loops, wt, wtargs, return_labels)
SiemArgs(n, p, E, directed, loops, wt, wtargs, rl) ==
    [n |-> n, p |-> p, edge_comm |-> E, directed |-> directed, loops |-> loops,
     wt |-> wt, wtargs |-> wtargs, return_labels |-> rl]

\* square edge_comm arrays of integers: one label on the diagonal, one above
\* it and one below it
PlantedEdgeComms ==
    {EdgeComm("ndarray", <<m, m>>, Planted(m, t[1], t[2], t[3]), TRUE) :
        m \in 1 .. MaxN, t \in (0 .. MaxLabel) \X (0 .. MaxLabel) \X (0 .. MaxLabel)}

\* edge_comm values of another type or shape: a list, an array holding a
\* non-integer, 1-D arrays, 2 x 1 and 1 x 2 arrays, 2 x 2 x 1 arrays
OtherEdgeComms ==
    {EdgeComm("list", <<1, 1>>, [c \in Idx(1) |-> 1], TRUE),
     EdgeComm("ndarray", <<1, 1>>, [c \in Idx(1) |-> 1], FALSE)}
    \cup {EdgeComm("ndarray", <<2>>, [c \in {<<0>>, <<1>>} |-> IF c[1] = 0 THEN 1 ELSE b], TRUE) :
             b \in 0 .. 2}
    \cup {EdgeComm("ndarray", <<2, 1>>, [c \in Idx2(2, 1) |-> IF c[1] = c[2] THEN a ELSE 1], TRUE) :
             a \in 0 .. 2}
    \cup {EdgeComm("ndarray", <<1, 2>>, [c \in Idx2(1, 2) |-> IF c[1] = c[2] THEN a ELSE 1], TRUE) :
             a \in 0 .. 2}
    \cup {EdgeComm("ndarray", <<2, 2, 1>>,
                    [c \in (0 .. 1) \X (0 .. 1) \X {0} |-> IF c[1] = c[2] THEN a ELSE 1], TRUE) :
             a \in 0 .. 1}

\* the side n of the caller: the one of edge_comm, another one, a float
SiemNs(E) == {IntV(E.shape[1]), IntV(E.shape[1] + 1), FloatV(E.shape[1])}

\* the labels: every edge_comm with p = 1/ProbDen for every community
SiemLabelInputs ==
    {SiemArgs(IntV(E.shape[1]), FloatV(1), E, dl[1], dl[2], SiemWtNone, SiemKwsNone, FALSE) :
        E \in PlantedEdgeComms \cup OtherEdgeComms, dl \in Bool \X Bool}

\* the side given by the caller
SiemSideInputs ==
    UNION {{SiemArgs(n, FloatV(ProbDen), E, dl[1], dl[2], SiemWtNone, SiemKwsNone, TRUE) :
               n \in SiemNs(E), dl \in Bool \X Bool} :
           E \in PlantedEdgeComms \cup OtherEdgeComms}

\* edge_comm arrays of K communities that pass the checks
SiemEdgeComms(K, loops) ==
    {E \in PlantedEdgeComms :
        /\ E.shape[1] = MaxN
        /\ SiemLabelCheck(E, loops) = "none"
        /\ MaxOf(Labels(E)) = K}

\* lists of probabilities: the first entry and the others
SiemPLists ==
    {PList(k, [i \in 1 .. k |-> IF i = 1 THEN t[1] ELSE t[2]]) :
        k \in 1 .. MaxLabel, t \in {-1, 0, 1, ProbDen, ProbDen + 1} \X {0, ProbDen}}

\* the probabilities: lists of every length, numbers, a string
SiemPInputs ==
    UNION {{SiemArgs(IntV(MaxN), p, E, dl[1], dl[2], SiemWtNone, SiemKwsNone, FALSE) :
               p \in SiemPLists \cup {PString, IntV(1), IntV(2), FloatV(0), FloatV(-1)},
               E \in SiemEdgeComms(K, dl[2])} :
           K \in 1 .. 2, dl \in Bool \X Bool}

\* the weights, every edge being present
SiemWtForms ==
    {<<SiemWtFunction, SiemKwsNone>>, <<SiemWtFunction, KwsDict>>,
     <<SiemWtFunction, KwsList(1, FALSE)>>, <<SiemWtString, KwsDict>>,
     <<SiemWtNone, KwsDict>>}
    \cup {<<SiemWtFunctions(k), kw>> :
             k \in 1 .. 2, kw \in {SiemKwsNone, KwsDict, KwsList(1, TRUE), KwsList(2, TRUE)}}

SiemWtInputs ==
    UNION {{SiemArgs(IntV(MaxN), FloatV(ProbDen), E, dl[1], dl[2], f[1], f[2], FALSE) :
               f \in SiemWtForms, E \in SiemEdgeComms(K, dl[2])} :
           K \in 1 .. 2, dl \in Bool \X Bool}

SiemInputs == SiemLabelInputs \cup SiemSideInputs \cup SiemPInputs \cup SiemWtInputs

\* one call of siem
CallSiem ==
    /\ Idle
    /\ \E a \in SiemInputs :
          IF SiemCheck(a) # "none"
          THEN Raises("siem", a, SiemCheck(a), {}, 0, NoValue)
          ELSE \E d \in SiemSamples(a.edge_comm, a.p) :
                 \E w \in SiemWeights(a.edge_comm, a.wt) :
                   Returns("siem", a,
                           IF a.return_labels
                           THEN [A |-> SiemMatrix(a.edge_comm, a.directed, a.wt, d, w),
                                 labels |-> a.edge_comm.data]
                           ELSE SiemMatrix(a.edge_comm, a.directed, a.wt, d, w),
                           {}, Cardinality(DOMAIN d) + Cardinality(DOMAIN w),
                           [samples |-> d, wts |-> w])

NextSiem == CallSiem \/ Done

SpecSiem == Init /\ [][NextSiem]_vars

\* ---------------------------------------------------------- p_from_latent
MaxLatN == 2
\* the largest number of vertices (rows of X)

MaxLatD == 1
\* the largest number of latent dimensions (columns of X)

LatDen == 2
\* latent coordinates are multiples of 1/LatDen, entries of P of 1/LatDen^2

\* the coordinates: negative, zero, small, and above 1
LatVals == {-1, 0, 1, LatDen + 1}

\* the number 1 in the unit of the entries of P
One == LatDen * LatDen

YNone == [type |-> "None"]

\* ndarray.ndim
Ndim(X) == Len(X.shape)

\* the checks of X and Y, Y already replaced by X when it was None
LatentCheck(X, Y) ==
    IF X.type # "ndarray" \/ Y.type # "ndarray" THEN "TypeError"
    ELSE IF Ndim(X) # 2 \/ Ndim(Y) # 2 THEN "ValueError"
    ELSE IF X.shape # Y.shape THEN "ValueError"
    ELSE "none"

\* X @ Y.T for two n x d arrays
MatMulT(X, Y) ==
    [c \in Idx(X.shape[1]) |->
        SumOver([k \in 0 .. X.shape[2] - 1 |->
                    X.data[<<c[1], k>>] * Y.data[<<c[2], k>>]],
                0 .. X.shape[2] - 1)]

\* P.min(), P.max()
PMin(P) == CHOOSE x \in {P[c] : c \in DOMAIN P} : \A c \in DOMAIN P : x <= P[c]

PMax(P) == CHOOSE x \in {P[c] : c \in DOMAIN P} : \A c \in DOMAIN P : x >= P[c]

RescaleAlwaysShifts(P) ==
    LET Q == [c \in DOMAIN P |-> P[c] - PMin(P)]
    IN  IF PMax(Q) > One
        THEN [c \in DOMAIN Q |-> <<Q[c], PMax(Q)>>]
        ELSE [c \in DOMAIN Q |-> <<Q[c], One>>]

\* rescale=True: shift by a negative minimum, then divide by a maximum above 1;
\* the entries are returned as quotients <<numerator, denominator>>
Rescale(P) ==
    LET Q == IF PMin(P) < 0 THEN [c \in DOMAIN P |-> P[c] - PMin(P)] ELSE P
    IN  IF PMax(Q) > One
        THEN [c \in DOMAIN Q |-> <<Q[c], PMax(Q)>>]
        ELSE [c \in DOMAIN Q |-> <<Q[c], One>>]

ClipBelowOnly(P) ==
    [c \in DOMAIN P |-> <<IF P[c] < 0 THEN 0 ELSE P[c], One>>]

\* rescale=False: P[P < 0] = 0 and then P[P > 1] = 1
Clip(P) ==
    LET Q == [c \in DOMAIN P |-> IF P[c] < 0 THEN 0 ELSE P[c]]
    IN  [c \in DOMAIN Q |-> <<IF Q[c] > One THEN One ELSE Q[c], One>>]

\* the matrix p_from_latent returns for arrays that pass the checks
PFromLatent(X, Y, rescale, loops) ==
    LET P == MatMulT(X, Y)
        Q == IF ~loops THEN MinusDiag(P) ELSE P
    IN  IF rescale THEN Rescale(Q) ELSE Clip(Q)

\* X: an n x d array, or something the checks refuse
LatentArrays ==
    UNION {{Array(<<sh[1], sh[2]>>, d) : d \in [Idx2(sh[1], sh[2]) -> LatVals]}
           : sh \in (1 .. MaxLatN) \X (1 .. MaxLatD)}

\* Y: None, an array of the shape of X, or something the checks refuse
LatentYs(X) ==
    {YNone, NotAnArray, OneDimArray, NonSquareArray}
    \cup (IF X.type = "ndarray" /\ Ndim(X) = 2
          THEN {Array(X.shape, [c \in DOMAIN X.data |-> v]) : v \in {-1, LatDen}}
          ELSE {})

CallPFromLatent ==
    /\ Idle
    /\ \E X \in LatentArrays \cup {NotAnArray, OneDimArray} :
       \E Y \in LatentYs(X) :
       \E rescale \in Bool, loops \in Bool :
        LET a == [X |-> X, Y |-> Y, rescale |-> rescale, loops |-> loops]
            Y1 == IF Y.type = "None" THEN X ELSE Y
        IN
        IF LatentCheck(X, Y1) # "none"
        THEN Raises("p_from_latent", a, LatentCheck(X, Y1), {}, 0, NoValue)
        ELSE Returns("p_from_latent", a, PFromLatent(X, Y1, rescale, loops),
                     {}, 0, NoValue)

NextLatent == CallPFromLatent \/ Done

SpecLatent == Init /\ [][NextLatent]_vars

\* C10: for every 2-D array X, p_from_latent(X) with rescale=False returns a
\* symmetric matrix whose entries all lie in [0, 1], and with loops=False the
\* diagonal of the matrix is zero.
C10_ClippedSymmetric ==
    (/\ op = "p_from_latent"
     /\ arg.X.type = "ndarray" /\ Ndim(arg.X) = 2
     /\ arg.Y.type = "None" /\ ~arg.rescale)
    => /\ err = "none"
       /\ DOMAIN ret = Idx(arg.X.shape[1])
       /\ ret = Transpose(ret)
       /\ \A c \in DOMAIN ret : 0 <= ret[c][1] /\ ret[c][1] <= ret[c][2]
       /\ ~arg.loops => \A c \in DOMAIN ret : c[1] = c[2] => ret[c][1] = 0

\* two vertices with a coordinate above 1 and loops=False: their inner product
\* was clipped to 1 and the diagonal, which was above 1, is zero
C10_Witness ==
    /\ op = "p_from_latent" /\ err = "none"
    /\ arg.Y.type = "None" /\ ~arg.rescale /\ ~arg.loops
    /\ arg.X.shape = <<2, 1>>
    /\ arg.X.data[<<0, 0>>] = LatDen + 1 /\ arg.X.data[<<1, 0>>] = LatDen + 1
    /\ ret[<<0, 1>>] = <<One, One>> /\ ret[<<0, 0>>] = <<0, One>>

\* ------------------------------------------------------------------- rdpg
\* np.random.binomial(1, p) for a probability held as a quotient
BernFrac(f) == IF f[1] = 0 THEN {0} ELSE IF f[1] = f[2] THEN {1} ELSE {0, 1}

\* the outcomes sample_edges can draw for the matrix P of quotients
BinomialFrac(P, cells) ==
    {d \in [cells -> {0, 1}] : \A c \in cells : d[c] \in BernFrac(P[c])}

\* the check of wt: neither an integer nor a float, and not callable
RdpgWtCheck(wt) ==
    IF ~IsNumber(wt) /\ ~IsCallable(wt) THEN "TypeError" ELSE "none"

\* the cells with A > 0
Nonzero(A) == {c \in DOMAIN A : A[c] > 0}

\* A[A > 0] = wts for a weight function (w the draws, one per nonzero cell),
\* A *= wt for a number
RdpgWeighted(A, wt, w) ==
    IF ~IsNumber(wt)
    THEN [c \in DOMAIN A |-> IF c \in Nonzero(A) THEN w[c] ELSE A[c]]
    ELSE [c \in DOMAIN A |-> A[c] * wt.val]

\* n x 1 latent arrays with the coordinates of V
ColumnArrays(V) ==
    UNION {{Array(<<n, 1>>, d) : d \in [Idx2(n, 1) -> V]} : n \in 1 .. MaxN}

\* calls with a constant or an invalid wt, and calls with a weight function
\* (on latent positions that make every edge certain or impossible)
RdpgInputs ==
    UNION {[X : {X}, Y : {YNone, NotAnArray, Array(X.shape, [c \in DOMAIN X.data |-> LatDen])},
            rescale : Bool, directed : Bool, loops : Bool,
            wt : {IntV(1), FloatV(MaxWt), WtString}, wtargs : {WtArgsNone}]
           : X \in ColumnArrays({0, 1, LatDen})}
    \cup
    [X : ColumnArrays({0, LatDen}), Y : {YNone},
     rescale : {FALSE}, directed : Bool, loops : Bool,
     wt : {WtFunction}, wtargs : {WtArgsNone, WtArgsDict}]

CallRdpg ==
    /\ Idle
    /\ \E a \in RdpgInputs :
        LET Y1 == IF a.Y.type = "None" THEN a.X ELSE a.Y
            P == Array(<<a.X.shape[1], a.X.shape[1]>>,
                       PFromLatent(a.X, Y1, a.rescale, a.loops))
            cells == SampleCells(P, a.directed)
        IN
        IF LatentCheck(a.X, Y1) # "none"
        THEN Raises("rdpg", a, LatentCheck(a.X, Y1), {}, 0, NoValue)
        ELSE \E d \in BinomialFrac(P.data, cells) :
             LET A == SampleEdges(P, a.directed, a.loops, d) IN
             IF RdpgWtCheck(a.wt) # "none"
             THEN Raises("rdpg", a, "TypeError", {}, Cardinality(cells),
                         [samples |-> d])
             ELSE IF ~IsNumber(a.wt) /\ a.wtargs.type = "None"
             THEN Raises("rdpg", a, "TypeError", {}, Cardinality(cells),
                         [samples |-> d])
             ELSE \E w \in [IF IsNumber(a.wt) THEN {} ELSE Nonzero(A) -> WtDraws] :
                  Returns("rdpg", a, RdpgWeighted(A, a.wt, w), {},
                          Cardinality(cells) + Cardinality(DOMAIN w),
                          [samples |-> d, wts |-> w])

NextRdpg == CallRdpg \/ Done

SpecRdpg == Init /\ [][NextRdpg]_vars

\* C12: rdpg(X, Y, directed=False, ...) returns a symmetric matrix, for a
\* numeric constant wt and for a weight function wt alike.
C12_RdpgUndirectedSymmetric ==
    (op = "rdpg" /\ err = "none" /\ ~arg.directed) => ret = Transpose(ret)

\* ------------------------------------------------------ sample_edges_corr
\* one entry of np.where(G1 == 1, P + R * (1 - P), P * (1 - R)), as the
\* numerator of a quotient with denominator ProbDen^2
CondProbNoEdgeTimesR(g, p, r) ==
    IF g = 1 THEN (p * ProbDen) + (r * (ProbDen - p)) ELSE p * r

CondProbSwapped(g, p, r) ==
    IF g = 1 THEN p * (ProbDen - r) ELSE (p * ProbDen) + (r * (ProbDen - p))

CondProb(g, p, r) ==
    IF g = 1 THEN (p * ProbDen) + (r * (ProbDen - p)) ELSE p * (ProbDen - r)

\* P2, the matrix of conditional probabilities given G1
CondMatrix(G1, P, R) ==
    [c \in DOMAIN P.data |->
        <<CondProb(G1[c], P.data[c], R.data[c]), ProbDen * ProbDen>>]

\* P with a on the diagonal, b above and c below it, at most one of the three
\* strictly between 0 and 1; R constant
CorrInputs ==
    UNION {[P : {Array(<<n, n>>, Planted(n, x[1], x[2], x[3])) :
                    x \in {y \in EdgeProbs \X EdgeProbs \X EdgeProbs :
                            Cardinality({i \in 1 .. 3 : y[i] = 1}) <= 1}},
            R : {Array(<<n, n>>, [c \in Idx(n) |-> r]) : r \in EdgeProbs},
            directed : Bool, loops : Bool]
           : n \in 1 .. MaxN}
    \cup [P : BadArrays, R : {Array(<<1, 1>>, [c \in Idx(1) |-> 1])},
          directed : Bool, loops : Bool]

CallSampleEdgesCorr ==
    /\ Idle
    /\ \E a \in CorrInputs :
        IF SampleEdgesCheck(a.P) # "none"
        THEN Raises("sample_edges_corr", a, SampleEdgesCheck(a.P), {}, 0, NoValue)
        ELSE LET cells == SampleCells(a.P, a.directed) IN
             \E d1 \in Binomial(a.P.data, cells) :
             LET G1 == SampleEdges(a.P, a.directed, a.loops, d1)
                 P2 == Array(a.P.shape, CondMatrix(G1, a.P, a.R))
             IN  \E d2 \in BinomialFrac(P2.data, cells) :
                 Returns("sample_edges_corr", a,
                         [G1 |-> G1, G2 |-> SampleEdges(P2, a.directed, a.loops, d2)],
                         {}, 2 * Cardinality(cells),
                         [samples1 |-> d1, P2 |-> P2.data, samples2 |-> d2])

NextCorr == CallSampleEdgesCorr \/ Done

SpecCorr == Init /\ [][NextCorr]_vars

\* C13: sample_edges_corr(P, R, directed=False, loops=False) on square P and
\* R with entries in [0, 1] returns two matrices of the shape of P that hold
\* only 0 and 1, are symmetric and have a zero diagonal.
C13_CorrPairSymmetricLoopless ==
    (/\ op = "sample_edges_corr"
     /\ SampleEdgesCheck(arg.P) = "none"
     /\ ~arg.directed /\ ~arg.loops)
    => /\ err = "none"
       /\ \A G \in {ret.G1, ret.G2} :
             /\ DOMAIN G = Idx(arg.P.shape[1])
             /\ \A c \in DOMAIN G : G[c] \in {0, 1}
             /\ G = Transpose(G)
             /\ \A c \in DOMAIN G : c[1] = c[2] => G[c] = 0

\* an asymmetric P with a certain diagonal and an interior R: the two graphs
\* differ, and both diagonal draws were 1
C13_Witness ==
    /\ op = "sample_edges_corr" /\ err = "none"
    /\ ~arg.directed /\ ~arg.loops
    /\ arg.P.shape = <<2, 2>>
    /\ arg.P.data[<<0, 0>>] = ProbDen
    /\ arg.P.data[<<0, 1>>] # arg.P.data[<<1, 0>>]
    /\ arg.R.data[<<0, 1>>] = 1
    /\ aux.samples1[<<0, 0>>] = 1
    /\ ret.G1[<<0, 1>>] = 1 /\ ret.G2[<<0, 1>>] = 0 /\ ret.G2[<<1, 0>>] = 0

\* C14: when every entry of R is 1 the second graph equals the first, whatever
\* the draws and the flags; when every entry of R is 0 the conditional matrix
\* P2 equals P whatever G1 is, and the outcomes the second sampling can have
\* are those of sampling P.
C14_CorrExtremes ==
    (op = "sample_edges_corr" /\ err = "none") =>
        /\ (\A c \in DOMAIN arg.R.data : arg.R.data[c] = ProbDen)
              => ret.G2 = ret.G1
        /\ (\A c \in DOMAIN arg.R.data : arg.R.data[c] = 0)
              => /\ \A c \in DOMAIN aux.P2 :
                       aux.P2[c][1] * ProbDen = arg.P.data[c] * aux.P2[c][2]
                 /\ aux.samples2 \in Binomial(arg.P.data, DOMAIN aux.samples2)

\* R = 1 everywhere, a directed call with loops on a P with an interior
\* diagonal: one diagonal draw of G1 was 1 and the other 0, and G2 repeats them
C14_Witness ==
    /\ op = "sample_edges_corr" /\ err = "none"
    /\ arg.directed /\ arg.loops /\ arg.P.shape = <<2, 2>>
    /\ \A c \in DOMAIN arg.R.data : arg.R.data[c] = ProbDen
    /\ arg.P.data[<<0, 0>>] = 1
    /\ ret.G1[<<0, 0>>] = 1 /\ ret.G1[<<1, 1>>] = 0
    /\ ret.G2[<<0, 0>>] = 1 /\ ret.G2[<<1, 1>>] = 0

\* C15: P2 is P + R(1-P) on the cells where G1 has an edge and P(1-R) on the
\* others; its entries lie in [0, 1]; and for every cell whose outcome is kept
\* (drawn, and not removed from the diagonal) the two conditional
\* probabilities weighted by P and 1-P give P:
\* P(P + R(1-P)) + (1-P)P(1-R) = P.
C15_ConditionalMatrix ==
    (op = "sample_edges_corr" /\ err = "none") =>
        LET D == ProbDen
            P == arg.P.data
            R == arg.R.data
        IN  /\ \A c \in DOMAIN aux.P2 :
                  /\ aux.P2[c][2] = D * D
                  /\ ret.G1[c] = 1 => aux.P2[c][1] = (P[c] * D) + (R[c] * (D - P[c]))
                  /\ ret.G1[c] # 1 => aux.P2[c][1] = P[c] * (D - R[c])
                  /\ 0 <= aux.P2[c][1] /\ aux.P2[c][1] <= aux.P2[c][2]
            /\ \A c \in DOMAIN aux.samples2 :
                  (arg.loops \/ c[1] # c[2]) =>
                     (P[c] * CondProb(1, P[c], R[c]))
                       + ((D - P[c]) * CondProb(0, P[c], R[c])) = P[c] * D * D

\* interior P on the diagonal and interior R, loops allowed: G1 has an edge
\* on one diagonal cell and none on the other, so both branches of P2 occur
C15_Witness ==
    /\ op = "sample_edges_corr" /\ err = "none"
    /\ arg.loops /\ arg.P.shape = <<2, 2>>
    /\ arg.P.data[<<0, 0>>] = 1 /\ arg.R.data[<<0, 0>>] = 1
    /\ ret.G1[<<0, 0>>] = 1 /\ ret.G1[<<1, 1>>] = 0
    /\ aux.P2[<<0, 0>>][1] = ProbDen + (ProbDen - 1)
    /\ aux.P2[<<1, 1>>][1] = ProbDen - 1

\* X @ Y.T of the call just made, the diagonal removed when loops=False: the
\* matrix before rescaling or clipping
LatentProduct ==
    LET Y1 == IF arg.Y.type = "None" THEN arg.X ELSE arg.Y
        P == MatMulT(arg.X, Y1)
    IN  IF ~arg.loops THEN MinusDiag(P) ELSE P

\* C11: with rescale=True every entry of the matrix returned lies in [0, 1];
\* the map from X @ Y.T is affine (all entries share one denominator and the
\* differences of the numerators are those of X @ Y.T, so nothing is clipped);
\* the numerators are those of X @ Y.T when its minimum is not negative and
\* otherwise start at 0; the denominator is 1 unless the shifted maximum
\* exceeds 1, and then it is that maximum.
C11_RescaledIntoUnitInterval ==
    (op = "p_from_latent" /\ err = "none" /\ arg.rescale) =>
        LET P == LatentProduct
            den == ret[CHOOSE c \in DOMAIN ret : TRUE][2]
            top == PMax([c \in DOMAIN ret |-> ret[c][1]])
        IN  /\ DOMAIN ret = DOMAIN P
            /\ \A c \in DOMAIN ret :
                  0 <= ret[c][1] /\ ret[c][1] <= ret[c][2] /\ ret[c][2] = den
            /\ \A c, d \in DOMAIN ret : ret[c][1] - ret[d][1] = P[c] - P[d]
            /\ IF PMin(P) >= 0
               THEN \A c \in DOMAIN ret : ret[c][1] = P[c]
               ELSE \E c \in DOMAIN ret : ret[c][1] = 0
            /\ IF top > One THEN den = top ELSE den = One

\* X and Y of the same shape whose product has a negative entry and, once
\* shifted, a maximum above 1: the matrix was shifted and divided
C11_Witness ==
    /\ op = "p_from_latent" /\ err = "none" /\ arg.rescale
    /\ arg.Y.type = "ndarray"
    /\ PMin(LatentProduct) < 0
    /\ PMax(LatentProduct) - PMin(LatentProduct) > One
    /\ \E c \in DOMAIN ret : ret[c][1] = 0
    /\ \E c \in DOMAIN ret : ret[c][1] = ret[c][2] /\ ret[c][2] > One

\* ------------------------------------------------------------ MultipleASE
MaxGraphs == 2
\* the largest number of graphs given to fit

MaxComponents == 1
\* the largest number of columns of the joint latent positions

\* graphs after _check_input_graphs: a sequence of n x n adjacency matrices
\* without loops
MaseGraphs ==
    UNION {[1 .. k -> {Planted(MaxN, 0, t[1], t[2]) : t \in {0, 1} \X {0, 1}}] :
           k \in 1 .. MaxGraphs}

\* is_almost_symmetric(g): g is equal to its transpose
IsAlmostSymmetric(g) == g = Transpose(g)

\* _diag_aug(graphs): the diagonal of each graph replaced by the weighted
\* degrees of the vertices
DiagAug(graphs) ==
    [i \in DOMAIN graphs |->
        [c \in DOMAIN graphs[i] |->
            IF c[1] # c[2] THEN graphs[i][c]
            ELSE SumOver([k \in 0 .. MaxN - 1 |-> graphs[i][<<c[1], k>>]], 0 .. MaxN - 1)]]

\* the factors selectSVD can return for n vertices: n x d arrays; column j
\* is a unit vector or the vector of ones
Factors ==
    UNION {{Array(<<MaxN, d>>, [c \in Idx2(MaxN, d) |-> IF (c[1] + c[2]) % MaxN = k THEN 1 ELSE 0]) :
               k \in 0 .. MaxN - 1}
           \cup {Array(<<MaxN, d>>, [c \in Idx2(MaxN, d) |-> 1])} :
           d \in 1 .. MaxComponents}

\* _reduce_dim(graphs): the per-graph factors are stacked into Us and Vs and
\* selectSVD is called on both, whatever the graphs; the results are Uhat and
\* Vhat
ReduceDim(graphs) ==
    {[Uhat |-> U, Vhat |-> V, svds |-> {"Us", "Vs"}] : U \in Factors, V \in Factors}

\* Uhat.T @ graphs @ Vhat: one score matrix per graph
Scores(U, graphs, V) ==
    [i \in DOMAIN graphs |->
        [c \in Idx2(U.shape[2], V.shape[2]) |->
            SumOver([x \in Idx(MaxN) |-> U.data[<<x[1], c[1]>>] * graphs[i][x] * V.data[<<x[2], c[2]>>]],
                    Idx(MaxN))]]

\* the attribute latent_right_: None or an array
NoLatent == [type |-> "None", shape |-> <<>>, data |-> <<>>]

\* the attributes set by fit
Fitted(undirected, graphs, r) ==
    [latent_left_ |-> r.Uhat,
     latent_right_ |-> IF undirected THEN NoLatent ELSE r.Vhat,
     scores_ |-> Scores(r.Uhat, graphs, IF undirected THEN r.Uhat ELSE r.Vhat)]

\* the diag_aug default of BaseEmbedMulti.__init__
BaseDiagAug == TRUE

\* MultipleASE.__init__: diag_aug is a parameter, but it is neither stored nor
\* handed to the constructor of the base class, whose default stays
MaseInit(diag_aug) == [diag_aug |-> BaseDiagAug]

\* MultipleASE(diag_aug=...).fit(graphs)
FitInputs == {[graphs |-> g, diag_aug |-> b] : g \in MaseGraphs, b \in Bool}

CallFit ==
    /\ Idle
    /\ \E a \in FitInputs :
          LET self == MaseInit(a.diag_aug)
              undirected == \A i \in DOMAIN a.graphs : IsAlmostSymmetric(a.graphs[i])
              graphs == IF self.diag_aug THEN DiagAug(a.graphs) ELSE a.graphs
          IN \E r \in ReduceDim(graphs) :
               Returns("fit", a, Fitted(undirected, graphs, r), {}, 0,
                       [graphs |-> graphs, Uhat |-> r.Uhat, Vhat |-> r.Vhat, svds |-> r.svds])

NextFit == CallFit \/ Done

SpecFit == Init /\ [][NextFit]_vars

\* ----------------------------------------------------------------- colors
NumColors == 2
\* the number of colors of a palette

MaxNodes == 3
\* the largest number of nodes in a partitions or node_and_value dict

\* a palette of a theme: its nominal and its sequential colors
Palette(theme, mode) ==
    [nominal |-> [i \in 1 .. NumColors |-> <<theme, mode, "nominal", i>>],
     sequential |-> [i \in 1 .. NumColors |-> <<theme, mode, "sequential", i>>]]

\* the content of a thematic json file
Theme(name) == [light |-> Palette(name, "light"), dark |-> Palette(name, "dark")]

\* the paths that are files, and the values theme_path takes
ThemeFiles == {"custom.json"}

ThemePathNone == "None"

ThemePaths == {ThemePathNone, "custom.json", "missing.json"}

\* _load_thematic_json(path): (light, dark) of the file at path when it is a
\* file, of the bundled colors-100.json otherwise
LoadThematicJson(path) ==
    IF path # ThemePathNone /\ path \in ThemeFiles
    THEN <<Theme(path).light, Theme(path).dark>>
    ELSE <<Theme("bundled").light, Theme("bundled").dark>>

\* _CACHED_LIGHT, _CACHED_DARK = _load_thematic_json(None)
CachedLight == LoadThematicJson(ThemePathNone)[1]

CachedDark == LoadThematicJson(ThemePathNone)[2]

\* a value bound to a name: a palette (dict) or a (light, dark) pair (tuple)
PyDict(v) == [type |-> "dict", value |-> v]

PyTuple(v) == [type |-> "tuple", value |-> v]

\* _get_colors: the right-hand side is the pair
\*   _CACHED_LIGHT, (_CACHED_DARK if theme_path is None else _load_thematic_json(theme_path))
\* so light is always the cached one and dark is the whole pair loaded when
\* theme_path is given
GetColors(light_background, theme_path) ==
    IF light_background THEN PyDict(CachedLight)
    ELSE IF theme_path = ThemePathNone THEN PyDict(CachedDark)
    ELSE PyTuple(LoadThematicJson(theme_path))

\* the partitions by population, descending; ties keep the order in which the
\* partitions first appear in the dict
Population(partitions, q) == Cardinality({x \in DOMAIN partitions : partitions[x] = q})

FirstNode(partitions, q) ==
    CHOOSE x \in DOMAIN partitions :
        partitions[x] = q /\ \A y \in DOMAIN partitions : partitions[y] = q => x <= y

PartitionIndex(partitions, q) ==
    Cardinality({r \in {partitions[x] : x \in DOMAIN partitions} :
        \/ Population(partitions, r) > Population(partitions, q)
        \/ /\ Population(partitions, r) = Population(partitions, q)
           /\ FirstNode(partitions, r) < FirstNode(partitions, q)})

\* colors_by_node of categorical_colors: the nominal colors are cycled
CategoricalColors(partitions, nominal) ==
    [x \in DOMAIN partitions |->
        nominal[(PartitionIndex(partitions, partitions[x]) % Len(nominal)) + 1]]

\* minmax_scale of the values into 0 .. num_colors - 1, and int() of it; a
\* zero range scales to 0
ColorIndex(values, x, num_colors) ==
    LET lo == CHOOSE v \in {values[y] : y \in DOMAIN values} :
                  \A y \in DOMAIN values : v <= values[y]
        hi == CHOOSE v \in {values[y] : y \in DOMAIN values} :
                  \A y \in DOMAIN values : v >= values[y]
    IN IF hi = lo THEN 0 ELSE ((values[x] - lo) * (num_colors - 1)) \div (hi - lo)

\* node_colors of sequential_colors
SequentialColors(values, color_list) ==
    [x \in DOMAIN values |-> color_list[ColorIndex(values, x, Len(color_list)) + 1]]

\* dicts with the nodes 1 .. k in this order, k = 0 being the empty dict
NodeDicts(V) == UNION {[1 .. k -> V] : k \in 0 .. MaxNodes}

\* categorical_colors(partitions, light_background, theme_path)
CallCategoricalColors ==
    /\ Idle
    /\ \E partitions \in NodeDicts(1 .. 2), lb \in Bool, path \in ThemePaths :
          LET a == [partitions |-> partitions, light_background |-> lb, theme_path |-> path]
              color_scheme == GetColors(lb, path)
          IN IF color_scheme.type = "tuple"
             THEN \* color_scheme["nominal"] of a tuple
                  Raises("categorical_colors", a, "TypeError", {}, 0,
                         [color_scheme |-> color_scheme])
             ELSE Returns("categorical_colors", a,
                          CategoricalColors(partitions, color_scheme.value.nominal), {}, 0,
                          [color_scheme |-> color_scheme])

\* sequential_colors(node_and_value, light_background, False, theme_path)
CallSequentialColors ==
    /\ Idle
    /\ \E values \in NodeDicts(0 .. 2), lb \in Bool, path \in ThemePaths :
          LET a == [node_and_value |-> values, light_background |-> lb, theme_path |-> path]
              color_scheme == GetColors(lb, path)
          IN IF color_scheme.type = "tuple"
             THEN \* color_scheme["sequential"] of a tuple
                  Raises("sequential_colors", a, "TypeError", {}, 0,
                         [color_scheme |-> color_scheme])
             ELSE IF DOMAIN values = {}
             THEN \* keys, values = zip(*[])
                  Raises("sequential_colors", a, "ValueError", {}, 0,
                         [color_scheme |-> color_scheme])
             ELSE Returns("sequential_colors", a,
                          SequentialColors(values, color_scheme.value.sequential), {}, 0,
                          [color_scheme |-> color_scheme])

NextColors == CallCategoricalColors \/ CallSequentialColors \/ Done

SpecColors == Init /\ [][NextColors]_vars

\* the palette the documentation promises for the call just made
PromisedPalette ==
    LET theme == IF arg.theme_path \in ThemeFiles THEN Theme(arg.theme_path)
                 ELSE Theme("bundled")
    IN IF arg.light_background THEN theme.light ELSE theme.dark

\* C24: categorical_colors and sequential_colors take their palette, light
\* or dark according to light_background, from the file named by theme_path
\* when it is a file, and from the bundled theme otherwise.
C24_PaletteFromThemePath ==
    op \in {"categorical_colors", "sequential_colors"} =>
        /\ aux.color_scheme.type = "dict"
        /\ aux.color_scheme.value = PromisedPalette

\* ---------------------------------------------------------- the samplers
\* any call of one of the samplers
NextSamplers ==
    \/ CallSampleEdges
    \/ CallErNm
    \/ CallSbm
    \/ CallSiem
    \/ CallRdpg
    \/ Done

SpecSamplers == Init /\ [][NextSamplers]_vars

\* C23: a call of sample_edges, er_nm, sbm, siem or rdpg that raises has drawn
\* no value from the random generator.
C23_ErrorsBeforeDraws ==
    (op \in {"sample_edges", "er_nm", "sbm", "siem", "rdpg"} /\ err # "none")
        => ndraws = 0

\* ------------------------------------------------------- siem: properties
\* S is {1, ..., K} for some K >= 0
ConsecutiveFromOne(S) == \E K \in 0 .. MaxLabel + 1 : S = 1 .. K

\* the labels the validation is about: the off-diagonal ones when loops=False
\* (an array of one dimension has no diagonal)
CommunityLabels(E, loops) ==
    IF loops \/ Len(E.shape) = 1 THEN Labels(E) ELSE OffDiagonal(E)

\* C17: siem raises an error for every edge_comm holding a non-integer, for
\* every edge_comm whose community labels (the off-diagonal ones when
\* loops=False) are not exactly 1..K, and, when loops=False, for every
\* edge_comm with a non-zero label on its diagonal; with loops=False a square
\* edge_comm with off-diagonal labels exactly 1..K (K >= 1) and a zero
\* diagonal passes (n an int, p a probability, no weights).
C17_SiemLabelValidation ==
    op = "siem" =>
        LET E == arg.edge_comm IN
        /\ ~E.integral => err # "none"
        /\ ~ConsecutiveFromOne(CommunityLabels(E, arg.loops)) => err # "none"
        /\ (~arg.loops /\ Len(E.shape) > 1 /\ Diagonal(E) # {0}) => err # "none"
        /\ ( /\ ~arg.loops
             /\ E.type = "ndarray" /\ E.integral
             /\ Len(E.shape) = 2 /\ E.shape[1] = E.shape[2]
             /\ OffDiagonal(E) # {} /\ ConsecutiveFromOne(OffDiagonal(E))
             /\ Diagonal(E) = {0}
             /\ arg.n.type = "int"
             /\ arg.p.type = "float" /\ arg.p.val \in 0 .. ProbDen
             /\ arg.wt.type = "None" )
           => err = "none"

\* a call with the labels 1 and 3 and no label 2 was rejected
C17_Witness ==
    /\ op = "siem"
    /\ arg.edge_comm.type = "ndarray"
    /\ arg.edge_comm.integral
    /\ Len(arg.edge_comm.shape) = 2
    /\ arg.loops
    /\ Labels(arg.edge_comm) = {1, 3}
    /\ err = "ValueError"

\* C18: siem raises ValueError whenever edge_comm (an ndarray) is not a
\* square 2-D array or its side differs from the n given by the caller (an
\* int), with loops=True and with loops=False.
C18_SiemShapeErrors ==
    ( /\ op = "siem"
      /\ arg.n.type = "int"
      /\ arg.edge_comm.type = "ndarray"
      /\ \/ Len(arg.edge_comm.shape) # 2
         \/ arg.edge_comm.shape[1] # arg.edge_comm.shape[2]
         \/ arg.edge_comm.shape[1] # arg.n.val )
    => err = "ValueError"

\* the adjacency matrix returned by the siem call just made
SiemReturned == IF arg.return_labels THEN ret.A ELSE ret

\* the arguments of the siem call just made pass every documented
\* requirement other than the symmetry of edge_comm
SiemValidButForSymmetry ==
    LET E == arg.edge_comm
        K == Cardinality(CommunityLabels(E, arg.loops))
    IN /\ arg.n.type = "int"
       /\ E.type = "ndarray" /\ E.integral
       /\ Len(E.shape) = 2 /\ E.shape[1] = E.shape[2]
       /\ K >= 1 /\ ConsecutiveFromOne(CommunityLabels(E, arg.loops))
       /\ ~arg.loops => Diagonal(E) = {0}
       /\ \/ arg.p.type \in {"float", "int"} /\ arg.p.val \in 0 .. ProbDen
          \/ /\ arg.p.type = "list" /\ arg.p.len = K
             /\ \A i \in 1 .. K : arg.p.val[i] \in 0 .. ProbDen
       /\ \/ arg.wt.type = "None"
          \/ arg.wt.type = "callable" /\ arg.wtargs.type = "dict"
          \/ /\ arg.wt.type = "funlist" /\ arg.wt.len = K
             /\ arg.wtargs.type = "list" /\ arg.wtargs.len = K /\ arg.wtargs.dicts

\* the value sampled for cell c in the siem call just made
SiemCellValue(c) ==
    IF arg.edge_comm.data[c] = 0 THEN 0
    ELSE IF arg.wt.type = "None" THEN aux.samples[c]
    ELSE aux.samples[c] * aux.wts[c]

\* C19: a siem call with directed=False and an edge_comm that is not
\* symmetric (its other arguments being valid) raises nothing, and the matrix
\* returned is symmetric: cell (i, j) and cell (j, i) both hold the value
\* sampled for the upper-triangle cell.
C19_SiemAsymmetricEdgeComm ==
    ( /\ op = "siem"
      /\ ~arg.directed
      /\ SiemValidButForSymmetry
      /\ arg.edge_comm.data # Transpose(arg.edge_comm.data) )
    => /\ err = "none"
       /\ SiemReturned = Transpose(SiemReturned)
       /\ \A c \in DOMAIN SiemReturned :
             c[1] <= c[2] => SiemReturned[c] = SiemCellValue(c)

\* an undirected call with an asymmetric edge_comm returned, the values
\* sampled for the two triangles being different
C19_Witness ==
    /\ op = "siem"
    /\ ~arg.directed
    /\ arg.edge_comm.shape = <<2, 2>>
    /\ arg.edge_comm.data[<<0, 1>>] # arg.edge_comm.data[<<1, 0>>]
    /\ err = "none"
    /\ SiemCellValue(<<0, 1>>) # SiemCellValue(<<1, 0>>)
    /\ SiemReturned[<<1, 0>>] = SiemCellValue(<<0, 1>>)

\* ------------------------------------------------ MultipleASE: properties
\* C20: after fit returns, latent_left_ and scores_ are set; when every graph
\* given is symmetric, latent_right_ is None, no right latent positions were
\* computed and each score is Uhat^T A_i Uhat; otherwise latent_right_ is Vhat
\* and each score is Uhat^T A_i Vhat (A_i the graph as embedded).
C20_FitAttributes ==
    op = "fit" =>
        /\ ret.latent_left_ = aux.Uhat
        /\ DOMAIN ret.scores_ = DOMAIN arg.graphs
        /\ IF \A i \in DOMAIN arg.graphs : arg.graphs[i] = Transpose(arg.graphs[i])
           THEN /\ ret.latent_right_.type = "None"
                /\ "Vs" \notin aux.svds
                /\ ret.scores_ = Scores(aux.Uhat, aux.graphs, aux.Uhat)
           ELSE /\ ret.latent_right_ = aux.Vhat
                /\ ret.scores_ = Scores(aux.Uhat, aux.graphs, aux.Vhat)

\* C21: the diag_aug flag given to the constructor decides what fit embeds:
\* the graphs as given when it is False, the graphs with the diagonal replaced
\* by the degrees when it is True.
C21_DiagAugFlag ==
    op = "fit" =>
        aux.graphs = IF arg.diag_aug THEN DiagAug(arg.graphs) ELSE arg.graphs

\* C22: every score is computed from the adjacency matrix as given by the
\* caller, Uhat^T A_i Vhat (Uhat^T A_i Uhat when every graph is symmetric),
\* whatever the diag_aug flag.
C22_ScoresFromInput ==
    op = "fit" =>
        ret.scores_ =
            Scores(aux.Uhat, arg.graphs,
                   IF \A i \in DOMAIN arg.graphs : arg.graphs[i] = Transpose(arg.graphs[i])
                   THEN aux.Uhat ELSE aux.Vhat)

\* ------------------------------------------------------ sbm: properties
\* the number of vertices of an sbm call
NumVertices(a) == SumTo(a.n.val, a.n.len)

\* the weights of community i in the vector the loop uses sum to 1
SumsToOne(dcp, S) ==
    /\ \A v \in S : dcp[v][2] > 0 /\ dcp[v][2] = dcp[CHOOSE x \in S : TRUE][2]
    /\ SumOver([v \in S |-> dcp[v][1]], S) = dcp[CHOOSE x \in S : TRUE][2]

\* C8: in every sbm call with a degree correction that reaches the sampling
\* loop, the weight vector the loop uses sums to 1 within every community that
\* has a vertex; with the per-vertex array form the "normalizing" warnings are
\* exactly those of the communities whose supplied weights do not sum to 1, and
\* the call returns a graph.
C8_WeightsSumToOne ==
    (/\ op = "sbm"
     /\ arg.dc.type \in {"callable", "numlist", "funlist"}
     /\ aux # NoValue)
    => /\ \A i \in 0 .. arg.n.len - 1 :
             Cmty(arg.n.val, i) # {} => SumsToOne(aux.dcProbs, Cmty(arg.n.val, i))
       /\ arg.dc.type = "numlist" =>
             /\ {w \in warns : w[1] = "normalizing"}
                  = {<<"normalizing", i>> : i \in
                        {j \in 0 .. arg.n.len - 1 :
                            SumOver(arg.dc.data, Cmty(arg.n.val, j)) # DcDen}}
             /\ err = "none"

\* C9: sbm raises ValueError whenever a degree-correction weight is negative:
\* an entry of the per-vertex array, or a value returned by the dc function or
\* by one of the per-community dc functions.
C9_NegativeDcRaises ==
    (/\ op = "sbm"
     /\ \/ /\ arg.dc.type = "numlist"
            /\ \E v \in DOMAIN arg.dc.data : arg.dc.data[v] < 0
        \/ /\ arg.dc.type \in {"callable", "funlist"}
            /\ aux # NoValue
            /\ \E v \in DOMAIN aux.raw : aux.raw[v] < 0)
    => err = "ValueError"

\* C5: every matrix sbm returns has shape (sum(n), sum(n)), an all-zero
\* diagonal when loops=False and equals its transpose when directed=False,
\* whatever p, the weights and the degree correction are.
C5_SbmLooplessSymmetric ==
    (op = "sbm" /\ err = "none") =>
        /\ DOMAIN ret.A = Idx(NumVertices(arg))
        /\ ~arg.loops => \A c \in DOMAIN ret.A : c[1] = c[2] => ret.A[c] = 0
        /\ ~arg.directed => ret.A = Transpose(ret.A)

\* an undirected loopless call with two communities and a weight function, in
\* which a diagonal cell was selected and an edge between the communities was
\* given a weight other than 1
C5_Witness ==
    /\ op = "sbm" /\ err = "none"
    /\ ~arg.directed /\ ~arg.loops /\ IsCallable(arg.wt)
    /\ arg.n.len = 2 /\ NumVertices(arg) = 2
    /\ <<0, 0>> \in aux.sel[<<0, 0>>].cells
    /\ ret.A[<<0, 1>>] = MaxWt /\ ret.A[<<1, 0>>] = MaxWt

\* C6: with return_labels=True sbm returns a label vector of length sum(n) in
\* which vertex v has label k exactly when n[0]+...+n[k-1] <= v <
\* n[0]+...+n[k], also when some n[k] is 0.
C6_LabelsAreBlockNumbers ==
    (op = "sbm" /\ err = "none" /\ arg.return_labels) =>
        /\ DOMAIN ret.labels = 0 .. NumVertices(arg) - 1
        /\ \A v \in DOMAIN ret.labels : \A k \in 0 .. arg.n.len - 1 :
              (ret.labels[v] = k) <=>
                  (SumTo(arg.n.val, k) <= v /\ v < SumTo(arg.n.val, k + 1))

\* labels were returned for two communities of one vertex each
C6_Witness ==
    /\ op = "sbm" /\ err = "none" /\ arg.return_labels
    /\ arg.n.len = 2 /\ arg.n.val[0] = 1 /\ arg.n.val[1] = 1
    /\ ret.labels[0] = 0 /\ ret.labels[1] = 1

\* C7: sbm raises, and returns no matrix, whenever p does not have shape
\* len(n) x len(n), some entry of p lies outside [0, 1], or directed=False and
\* p, the per-block wt array or the per-block wtargs array is not symmetric.
C7_SbmRejectsBadP ==
    (/\ op = "sbm"
     /\ \/ arg.p.shape # <<arg.n.len, arg.n.len>>
        \/ \E c \in DOMAIN arg.p.data : arg.p.data[c] < 0 \/ arg.p.data[c] > ProbDen
        \/ ~arg.directed /\ ~IsSymmetric(arg.p.data)
        \/ ~arg.directed /\ arg.wt.type = "list" /\ ~IsSymmetric(arg.wt.data)
        \/ ~arg.directed /\ arg.wtargs.type = "list" /\ ~IsSymmetric(arg.wtargs.data))
    => (err # "none" /\ ret = NoValue)

\* an undirected call whose p was symmetric and in range and whose wt array
\* was well formed, refused because the wtargs array is not symmetric
C7_Witness ==
    /\ op = "sbm" /\ err = "ValueError"
    /\ ~arg.directed
    /\ arg.p.shape = <<2, 2>> /\ arg.n.len = 2 /\ IsSymmetric(arg.p.data)
    /\ arg.wt.type = "list" /\ arg.wt.shape = <<2, 2>> /\ IsSymmetric(arg.wt.data)
    /\ \A c \in DOMAIN arg.wt.data : arg.wt.data[c] # 0
    /\ arg.wtargs.type = "list" /\ arg.wtargs.shape = <<2, 2>>
    /\ ~IsSymmetric(arg.wtargs.data)

\* the weight a selected cell c carries in the sbm call just made
SbmCellWeight(c) == IF IsNumber(arg.wt) THEN arg.wt.val ELSE aux.wts[c]

\* the cells of the matrix returned that the loop removal and the mirroring
\* leave as the loop wrote them
SbmKeptCells ==
    {c \in Idx(NumVertices(arg)) :
        /\ arg.loops \/ c[1] # c[2]
        /\ arg.directed \/ c[1] <= c[2]}

\* C25: in an sbm call without degree correction that returns, the blocks
\* processed are all pairs (i, j), only those with j >= i when directed=False;
\* a candidate cell of a block is selected exactly when its own uniform draw is
\* strictly below p[i, j], so a block with p = 0 selects nothing and a block
\* with p = 1 selects every candidate cell; the selected cells carry the block
\* weight and the other cells stay 0.
C25_SbmAcceptsBelowP ==
    (op = "sbm" /\ err = "none" /\ arg.dc.type = "None") =>
        /\ DOMAIN aux.sel = {b \in Idx(arg.n.len) : arg.directed \/ b[2] >= b[1]}
        /\ \A b \in DOMAIN aux.sel :
              /\ \A c \in BlockCells(arg.n.val, b) :
                    (c \in aux.sel[b].cells) <=> (aux.pchoice[c] < arg.p.data[b])
              /\ aux.sel[b].cells \subseteq BlockCells(arg.n.val, b)
              /\ arg.p.data[b] = 0 => aux.sel[b].cells = {}
              /\ arg.p.data[b] = ProbDen => aux.sel[b].cells = BlockCells(arg.n.val, b)
              /\ \A c \in BlockCells(arg.n.val, b) \cap SbmKeptCells :
                    ret.A[c] = IF c \in aux.sel[b].cells THEN SbmCellWeight(c) ELSE 0

\* an undirected call with two communities returned in which a draw equal to
\* p was rejected and a draw below the same p was accepted
C25_Witness ==
    /\ op = "sbm" /\ err = "none" /\ arg.dc.type = "None"
    /\ ~arg.directed /\ arg.n.len = 2
    /\ \E b \in DOMAIN aux.sel : \E c \in BlockCells(arg.n.val, b) :
          /\ arg.p.data[b] = 1 /\ aux.pchoice[c] = 1 /\ c \notin aux.sel[b].cells
    /\ \E b \in DOMAIN aux.sel : \E c \in BlockCells(arg.n.val, b) :
          /\ arg.p.data[b] = 1 /\ aux.pchoice[c] = 0 /\ c \in aux.sel[b].cells
          /\ ret.A[c] # 0

\* the candidate cells of block b with a nonzero product of dc weights in the
\* sbm call just made
SbmNonzeroPairs(b) ==
    {c \in BlockCells(arg.n.val, b) :
        EdgeDist(aux.dcProbs, c)[1] > 0 /\ EdgeDist(aux.dcProbs, c)[2] > 0}

\* the products of the dc weights over the cells of block b sum to 1
SbmEdgeDistSumsToOne(b) ==
    LET cells == BlockCells(arg.n.val, b) IN
    /\ \A c \in cells : EdgeDist(aux.dcProbs, c)[2] > 0
    /\ \A c \in cells :
          SumOver([x \in cells |-> EdgeDist(aux.dcProbs, x)[1]], cells)
              = EdgeDist(aux.dcProbs, c)[2]

\* C26: in an sbm call with a degree correction, for every block the loop
\* reaches: the cells selected are as many as the smaller of the number of
\* uniform draws below p[i, j] and the number of candidate cells with a nonzero
\* product of dc weights, each of them has a nonzero product; "Picking fewer
\* edges" is warned exactly when the first number exceeds the second; and
\* the products of the dc weights sum to 1 over the cells of the block.
C26_DcSelection ==
    (op = "sbm" /\ arg.dc.type \in {"callable", "numlist", "funlist"} /\ aux # NoValue) =>
        \A b \in DOMAIN aux.sel :
            /\ aux.sel[b].ok =>
                  /\ Cardinality(aux.sel[b].cells)
                        = Min(aux.num_edges[b], Cardinality(SbmNonzeroPairs(b)))
                  /\ aux.sel[b].cells \subseteq SbmNonzeroPairs(b)
            /\ (<<"fewer edges", b>> \in warns)
                  <=> (aux.num_edges[b] > Cardinality(SbmNonzeroPairs(b)))
            /\ BlockCells(arg.n.val, b) # {} => SbmEdgeDistSumsToOne(b)

\* the matrix returned by the sbm or er_nm call just made
SamplerReturned == IF op = "sbm" THEN ret.A ELSE ret

\* C27: an sbm or er_nm call whose wt is a number (an int or a float) and
\* whose arguments passed the checks never fails for calling the weight, and
\* every edge of the graph it returns carries exactly that number.
C27_ConstantWeight ==
    (op \in {"sbm", "er_nm"} /\ IsNumber(arg.wt) /\ aux # NoValue) =>
        /\ err # "TypeError"
        /\ err = "none" =>
              \A c \in DOMAIN SamplerReturned : SamplerReturned[c] \in {0, arg.wt.val}

\* p[k - 1] as given by the caller of siem, a number standing for every community
SiemGivenP(k) == IF arg.p.type = "list" THEN arg.p.val[k] ELSE arg.p.val

\* C28: in a siem call that returns, every cell labelled k in 1..K has its
\* own Bernoulli(p[k]) outcome, and its own weight draw when weights are
\* given; cells labelled 0 are not sampled and hold 0. In the matrix returned
\* a community with p[k] = 0 holds only zeros and, without weights, one with
\* p[k] = 1 only ones. The diagonal is zero when loops=False, and with
\* return_labels=True edge_comm is returned as given.
C28_SiemSampling ==
    (op = "siem" /\ err = "none") =>
        LET E == arg.edge_comm
            sampled == {c \in DOMAIN E.data : E.data[c] >= 1}
        IN /\ DOMAIN aux.samples = sampled
           /\ \A c \in sampled :
                 /\ aux.samples[c] \in {0, 1}
                 /\ SiemGivenP(E.data[c]) = 0 => aux.samples[c] = 0
                 /\ SiemGivenP(E.data[c]) = ProbDen => aux.samples[c] = 1
           /\ DOMAIN aux.wts = IF arg.wt.type = "None" THEN {} ELSE sampled
           /\ ndraws = Cardinality(DOMAIN aux.samples) + Cardinality(DOMAIN aux.wts)
           /\ \A c \in DOMAIN E.data :
                 /\ E.data[c] = 0 => SiemReturned[c] = 0
                 /\ (E.data[c] >= 1 /\ SiemGivenP(E.data[c]) = 0) => SiemReturned[c] = 0
                 /\ (E.data[c] >= 1 /\ SiemGivenP(E.data[c]) = ProbDen
                       /\ arg.wt.type = "None") => SiemReturned[c] = 1
           /\ ~arg.loops => \A c \in DOMAIN E.data : c[1] = c[2] => SiemReturned[c] = 0
           /\ arg.return_labels => ret.labels = E.data

\* --------------------------------------------- sample_edges, undirected draws
\* the matrix an undirected call assembles from the outcomes d drawn for the
\* pairs i <= j of n vertices: d[i,j] at both (i,j) and (j,i), the diagonal
\* cleared when loops is False
MirroredDraws(n, loops, d) ==
    [c \in Idx(n) |->
        IF c[1] = c[2] /\ ~loops THEN 0
        ELSE IF c[1] <= c[2] THEN d[c] ELSE d[<<c[2], c[1]>>]]

\* the arrays of P's shape that differ from P at most strictly below the diagonal
SameUpperTriangle(P) ==
    LET n == P.shape[1]
        below == {c \in Idx(n) : c[1] > c[2]}
    IN  {Array(P.shape, [c \in Idx(n) |-> IF c \in below THEN low[c] ELSE P.data[c]]) :
            low \in [below -> EdgeProbs]}

====
